---- MODULE Spec2Model ----
(***************************************************************************)
(* A model of remote_replicator_client_t                                   *)
(* (src/clustering/immediate_consistency/remote_replicator_client.cc):     *)
(* the construction of a secondary replica by a staged backfill that is    *)
(* interleaved with the primary's stream of timestamped writes.            *)
(*                                                                         *)
(* Keys are the integers 0 .. NumKeys-1 (MinKey = 0 is the smallest key,   *)
(* the empty store_key_t).  A right bound is an integer 0 .. NumKeys; the  *)
(* value NumKeys (Unbounded) stands for an unbounded right bound.          *)
(* Timestamps are the naturals; pred(T) is T-1.                            *)
(***************************************************************************)
EXTENDS Integers, Sequences, FiniteSets, TLC

\* ------------------------------------------------------------------ bounds
NumKeys == 2
MaxTs == 3
MaxT0 == 1
MaxEarly == 1
MaxOutstanding == 2
MaxMapTs == 3
MaxMapKey == 4
MaxMapSteps == 2
MaxInitQueue == 2
MaxDrainWrites == 6
MaxDrainQueue == 8
MaxSyncOps == 1
MaxWriteQueueCount == 1
TrickleDen == 2

\* ------------------------------------------------------- program constants
MAX_CONCURRENT_STREAM_QUEUE_ITEMS == 16
initial_poll_ms == 50
max_poll_ms == 10000

MinKey == 0
Unbounded == NumKeys
AllKeys == 0 .. (NumKeys - 1)

\* ----------------------------------------------------------------- regions
\* key_range_t: [left, right), left inclusive, right exclusive or unbounded.
Range(l, r) == [left |-> l, right |-> r]

\* key_range_t::empty(): a constant range; both bounds are the smallest key.
EmptyRange == Range(MinKey, MinKey)

region_is_empty(r) == r.right <= r.left

KeysOf(r) == {k \in AllKeys : r.left <= k /\ k < r.right}

\* write_t::shard(region, &subwrite): the write restricted to the region; the
\* result is the set of keys of the subwrite, and shard() returns false when
\* that set is empty.
ShardKeys(keys, r) == keys \cap KeysOf(r)

shard(keys, r) == ShardKeys(keys, r) # {}

\* ------------------------------------------------ backfill_end_timestamps_t
\* The member max_timestamp of a default-constructed object is not
\* initialised; the model holds a string there so that any arithmetic use of
\* it is an evaluation error rather than a chosen number.
UninitTs == "uninitialized"

\* backfill_end_timestamps_t(): region(region_t::empty())
EmptyBets == [region |-> EmptyRange, max_timestamp |-> UninitTs, steps |-> <<>>]

BetsFromRegionMapFrontMax(rm) ==
    [region |-> rm.domain,
     max_timestamp |-> rm.pieces[1][2],
     steps |-> rm.pieces]

\* backfill_end_timestamps_t(region_map): one step (left key, timestamp) per
\* piece of the region map, in key order.  A region map is modelled as
\* [domain |-> range, pieces |-> sequence of <<left key, timestamp>>].
BetsFromRegionMap(rm) ==
    [region |-> rm.domain,
     max_timestamp |-> rm.pieces[Len(rm.pieces)][2],
     steps |-> rm.pieces]

get_max_timestamp(b) == b.max_timestamp

RECURSIVE FirstStepAtLeast(_, _, _)
\* The loop of region_for_timestamp: the index of the first step whose
\* timestamp is >= ts, scanning from index i; 0 when there is none.
FirstStepAtLeast(steps, ts, i) ==
    IF i > Len(steps) THEN 0
    ELSE IF steps[i][2] >= ts THEN i
    ELSE FirstStepAtLeast(steps, ts, i + 1)

region_for_timestamp_strict(b, ts) ==
    LET i == FirstStepAtLeast(b.steps, ts + 1, 1)
    IN  IF i = 0 THEN b.region ELSE Range(b.region.left, b.steps[i][1])

region_for_timestamp(b, ts) ==
    LET i == FirstStepAtLeast(b.steps, ts, 1)
    IN  IF i = 0 THEN b.region ELSE Range(b.region.left, b.steps[i][1])

MaxOf(a, b) == IF a >= b THEN a ELSE b

combine_drop_first(this, next) ==
    IF region_is_empty(next.region) THEN this
    ELSE IF region_is_empty(this.region) THEN next
    ELSE [region |-> Range(this.region.left, next.region.right),
          max_timestamp |-> MaxOf(this.max_timestamp, next.max_timestamp),
          steps |-> this.steps \o SubSeq(next.steps, 2, Len(next.steps))]

\* combine(next): concatenation with a map over the adjacent region to the
\* right; the guarantees of lines 67-72 are CombineGuarantees.
combine(this, next) ==
    IF region_is_empty(next.region) THEN this
    ELSE IF region_is_empty(this.region) THEN next
    ELSE LET begin == IF this.steps[Len(this.steps)][2] = next.steps[1][2]
                      THEN 2 ELSE 1
         IN  [region |-> Range(this.region.left, next.region.right),
              max_timestamp |-> MaxOf(this.max_timestamp, next.max_timestamp),
              steps |-> this.steps \o SubSeq(next.steps, begin, Len(next.steps))]

CombineGuarantees(this, next) ==
    \/ region_is_empty(next.region)
    \/ region_is_empty(this.region)
    \/ /\ this.region.right = next.region.left
       /\ this.steps # <<>> /\ next.steps # <<>>
       /\ this.steps[Len(this.steps)][2] <= next.steps[1][2]


\* ------------------------------------------------------------------- state
VARIABLES
    region,             \* store->get_region(): the assigned region
    write_queue_count,  \* backfill_config.write_queue_count
    trickle_num,        \* write_queue_trickle_fraction = trickle_num / TrickleDen
    writes,             \* primary: writes[T] = keys touched by the write at T
    bf_ts,              \* backfiller: the timestamp its state has reached
    cpc,                \* position of the constructor
    interruptor,        \* the constructor's interruptor is pulsed
    hdrain,             \* the mailboxes' drain signal (handlers' interruptor)
    registered,         \* registered_ is pulsed
    t0,                 \* intro.streaming_begin_timestamp
    latest,             \* timestamp_enforcer_: latest_all_before_completed
    admitted,           \* timestamps in the order complete() was called
    rwlock,             \* "free", or "ctor" when held exclusively
    region_streaming,
    region_queueing,
    region_discarding,
    queue_fun,          \* "null", "immediate" or "trickle"
    queue,              \* the phase's std::queue<queue_entry_t>
    pushed_ts,          \* timestamps pushed to it since it was constructed
    ack_queue,          \* deferred throttle conditions (by timestamp)
    acks_to_release,    \* in units of 1/TrickleDen
    backfill_start_timestamp,
    right_bound,        \* callback.right_bound
    bets,               \* callback.backfill_end_timestamps
    replica,            \* replica_.has()
    ready_sent,         \* number of messages sent to intro.ready_mailbox
    hpc,                \* per async write: position of its handler
    pulsed,             \* timestamps whose queue_throttler is pulsed
    ops,                \* store: operations in write-token order
    nexec,              \* store: number of operations already processed
    data,               \* store: per key, the timestamps of the writes applied
    metainfo,           \* store: per key, <<branch, timestamp>>
    drain_pulsed,       \* throttle conditions pulsed since the drain began
    drain_finished,     \* on_finished_one_entry calls since the drain began
    sync_ops,           \* sync writes and reads delivered
    null_deref,         \* a handler dereferenced replica_ while it was empty
    mapA, mapB,         \* two backfill_end_timestamps_t objects
    mapT,               \* the timestamp asked for
    mapOut,             \* mapA after mapA.combine(mapB)
    mapRegA, mapRegB, mapRegOut,  \* results of region_for_timestamp(mapT)
    mpc,                \* position of the map operations
    wait_readiness,     \* wait_for_table_readiness: the readiness asked for
    interruptor_on_home, \* its interruptor is pulsed
    immediate,          \* its local variable immediate
    current_poll_ms,    \* its local variable current_poll_ms
    wait_obs,           \* what its latest poll observed
    wait_result,        \* the value it returned, or "none"
    wait_pc             \* its position

vars == <<region, write_queue_count, trickle_num, writes, bf_ts, cpc,
          interruptor, hdrain, registered, t0, latest, admitted, rwlock,
          region_streaming, region_queueing, region_discarding, queue_fun,
          queue, pushed_ts, ack_queue, acks_to_release,
          backfill_start_timestamp,
          right_bound, bets, replica, ready_sent, hpc, pulsed, ops, nexec,
          data, metainfo, drain_pulsed, drain_finished, sync_ops, null_deref,
          mapA, mapB, mapT, mapOut, mapRegA, mapRegB, mapRegOut, mpc,
          wait_readiness, interruptor_on_home, immediate, current_poll_ms,
          wait_obs, wait_result, wait_pc>>

cfgVars == <<region, write_queue_count, trickle_num>>
mapVars == <<mapA, mapB, mapT, mapOut, mapRegA, mapRegB, mapRegOut, mpc>>
waitVars == <<wait_readiness, interruptor_on_home, immediate, current_poll_ms,
              wait_obs, wait_result, wait_pc>>
storeVars == <<ops, nexec, data, metainfo>>
regionVars == <<region_streaming, region_queueing, region_discarding>>
queueVars == <<queue, pushed_ts, ack_queue, acks_to_release>>
phaseVars == <<backfill_start_timestamp, right_bound, bets>>
drainCounters == <<drain_pulsed, drain_finished>>
clientVars == <<cfgVars, writes, bf_ts, cpc, interruptor, hdrain, registered,
                t0, latest, admitted, rwlock, regionVars, queue_fun, queueVars,
                phaseVars, replica, ready_sent, hpc, pulsed, storeVars,
                drainCounters, sync_ops, null_deref>>

\* ---------------------------------------------------------------- the store
Branch == "branch"

\* version_t(branch_id, timestamp)
Version(ts) == <<Branch, ts>>

\* The value of key k after every write with timestamp <= ts that touches k
\* has been applied once, in timestamp order (the primary's state at ts).
IdealIn(ws, k, ts) == SelectSeq([i \in 1 .. ts |-> i], LAMBDA i : k \in ws[i])

Ideal(k, ts) == IdealIn(writes, k, ts)

\* store->write(new_metainfo over op.region, write, ...) and
\* store->set_metainfo(new_metainfo over op.region, ...)
StoreApplyData(d, op) ==
    [k \in AllKeys |->
        IF op.has_write /\ k \in op.keys THEN Append(d[k], op.ts) ELSE d[k]]

StoreApplyMetaWriteOnly(m, op) ==
    [k \in AllKeys |->
        IF op.has_write /\ k \in KeysOf(op.region) THEN Version(op.ts) ELSE m[k]]

StoreApplyMeta(m, op) ==
    [k \in AllKeys |-> IF k \in KeysOf(op.region) THEN Version(op.ts) ELSE m[k]]

RECURSIVE Flush(_, _, _)
\* The store's state at a read token taken now: every operation that holds an
\* earlier write token has been applied.
Flush(st, os, i) ==
    IF i > Len(os) THEN st
    ELSE Flush([data |-> StoreApplyData(st.data, os[i]),
                metainfo |-> StoreApplyMeta(st.metainfo, os[i])], os, i + 1)

DrainTasksNotJoined == Cardinality({})

\* Number of unfinished tasks spawned by drain_stream_queue.
DrainTasks == Cardinality({i \in (nexec + 1) .. Len(ops) : ops[i].path = "drain"})


\* ------------------------------------------------------------------ inputs
\* The assigned regions tried: a left bound at or above the smallest key, and
\* an unbounded right bound.
Regions == {Range(l, Unbounded) : l \in 0 .. 1}

\* The state of the client before its constructor runs.
ClientInit ==
    /\ region \in Regions
    /\ write_queue_count \in 1 .. MaxWriteQueueCount
    /\ trickle_num = 1
    /\ writes = <<>>
    /\ bf_ts = 0
    /\ cpc = "throttle"
    /\ interruptor = FALSE
    /\ hdrain = FALSE
    /\ registered = FALSE
    /\ t0 = 0
    /\ latest = 0
    /\ admitted = <<>>
    /\ rwlock = "free"
    /\ region_streaming = EmptyRange
    /\ region_queueing = EmptyRange
    /\ region_discarding = EmptyRange
    /\ queue_fun = "null"
    /\ queue = <<>>
    /\ pushed_ts = <<>>
    /\ ack_queue = <<>>
    /\ acks_to_release = 0
    /\ backfill_start_timestamp = 0
    /\ right_bound = 0
    /\ bets = EmptyBets
    /\ replica = FALSE
    /\ ready_sent = 0
    /\ hpc = [t \in 1 .. MaxTs |-> "none"]
    /\ pulsed = {}
    /\ ops = <<>>
    /\ nexec = 0
    /\ data = [k \in AllKeys |-> <<>>]
    /\ metainfo = [k \in AllKeys |-> <<"old", 0>>]
    /\ drain_pulsed = 0
    /\ drain_finished = 0
    /\ sync_ops = 0
    /\ null_deref = FALSE

\* No map operation is under way.
MapIdle ==
    /\ mapA = EmptyBets /\ mapB = EmptyBets /\ mapT = 0 /\ mapOut = EmptyBets
    /\ mapRegA = EmptyRange /\ mapRegB = EmptyRange /\ mapRegOut = EmptyRange
    /\ mpc = "off"

\* The observation of a poll that has not happened.
NoObs == [resolved |-> TRUE, db_name |-> "db", calc |-> "none", readiness |-> 0]

\* wait_for_table_readiness is not running.
WaitIdle ==
    /\ wait_readiness = 0
    /\ interruptor_on_home = FALSE
    /\ immediate = TRUE
    /\ current_poll_ms = 0
    /\ wait_obs = NoObs
    /\ wait_result = "none"
    /\ wait_pc = "off"

Init == ClientInit /\ MapIdle /\ WaitIdle

\* ------------------------------------------------- the primary's dispatcher
\* writes holds the writes the primary has performed that somebody has seen
\* so far: a write enters it when its message is first handled by the client
\* or when the backfiller's state first includes it.  Until then the write
\* cannot be observed, so performing it earlier gives no other behaviour.
Acked == {t \in 1 .. MaxTs : hpc[t] = "acked"}

\* The dispatcher keeps at most MaxOutstanding writes to this client unacked:
\* the greatest timestamp it can have reached.
MaxIssuable ==
    LET n == t0 + Cardinality(Acked) + MaxOutstanding
    IN  IF n <= MaxTs THEN MaxOf(n, Len(writes)) ELSE MaxTs

\* The key sets a write can touch: non-empty sets of keys of the region.
WriteKeySets == (SUBSET KeysOf(region)) \ {{}}

RECURSIVE Issued(_, _)
\* The write histories that extend ws up to timestamp n.
Issued(ws, n) ==
    IF Len(ws) >= n THEN {ws}
    ELSE UNION {Issued(Append(ws, keys), n) : keys \in WriteKeySets}

\* Lines 563-577 up to the handler's next suspension: it waits for its
\* store operation if it has one ("apply"), else for its throttle condition
\* ("throttle"), else it sends the ack ("acked").  A handler whose wait is
\* over runs on without suspending, so the ack is part of the step that ended
\* the wait.
AfterRoute(has_op, is_pulsed) ==
    IF has_op THEN "apply" ELSE IF is_pulsed THEN "acked" ELSE "throttle"

\* Lines 574-577 for the handlers whose throttle condition is pulsed now.
AfterPulse(h, conds) ==
    [t \in DOMAIN h |->
        IF h[t] = "throttle" /\ t \in conds /\ ~hdrain THEN "acked" ELSE h[t]]

\* ---------------------------------------------------------- the constructor
CtorVarsUnchanged ==
    UNCHANGED <<cfgVars, writes, hdrain, hpc, pulsed, sync_ops, null_deref,
                mapVars, waitVars, admitted, interruptor>>

\* Lines 124-127: backfill_throttler_t::lock_t.
AcquireThrottle ==
    /\ cpc = "throttle"
    /\ ~interruptor
    /\ cpc' = "wait_ok"
    /\ CtorVarsUnchanged
    /\ UNCHANGED <<bf_ts, registered, t0, latest, rwlock, regionVars, queue_fun,
                   queueVars, phaseVars, replica, ready_sent, storeVars,
                   drainCounters>>

\* Lines 132-157: wait_until_ok_to_receive_backfill, the initial regions and
\* the registration with the primary.
InitRegions ==
    /\ cpc = "wait_ok"
    /\ ~interruptor
    /\ region_streaming' = EmptyRange
    /\ region_queueing' = EmptyRange
    /\ region_discarding' = region
    /\ cpc' = "registering"
    /\ CtorVarsUnchanged
    /\ UNCHANGED <<bf_ts, registered, t0, latest, rwlock, queue_fun,
                   queueVars, phaseVars, replica, ready_sent, storeVars,
                   drainCounters>>

\* The async writes whose handler was started before the intro message was
\* handled and is suspended at line 510.
EarlyWrites == {t \in 1 .. MaxTs : hpc[t] = "registered_wait"}

\* Lines 144-149: the intro mailbox callback.  The primary has performed
\* streaming_begin_timestamp writes by then.
OnIntro ==
    /\ cpc = "registering"
    /\ ~registered
    /\ \E n \in 0 .. MaxT0 :
         /\ EarlyWrites \subseteq (n + 1) .. (n + MaxOutstanding)
         /\ writes' \in Issued(writes, n)
         /\ t0' = n
         /\ latest' = n
    /\ registered' = TRUE
    /\ UNCHANGED <<cfgVars, bf_ts, cpc, interruptor, hdrain, admitted,
                   rwlock, regionVars, queue_fun, queueVars, phaseVars, replica,
                   ready_sent, hpc, pulsed, storeVars, drainCounters, sync_ops,
                   null_deref, mapVars, waitVars>>

\* Lines 158-170: wait for registered_, create the backfillee, take the lock.
AcquireLock0 ==
    /\ cpc = "registering"
    /\ registered
    /\ ~interruptor
    /\ rwlock = "free"
    /\ rwlock' = "ctor"
    /\ cpc' = "loop"
    /\ CtorVarsUnchanged
    /\ UNCHANGED <<bf_ts, registered, t0, latest, regionVars, queue_fun,
                   queueVars, phaseVars, replica, ready_sent, storeVars,
                   drainCounters>>

\* Line 172: the condition of the while loop.
LoopConditionNever(streaming) == FALSE

LoopCondition(streaming) == streaming.right # region.right

\* Lines 172-173: the loop condition holds; the lock is released.
LoopEnter ==
    /\ cpc = "loop"
    /\ LoopCondition(region_streaming)
    /\ rwlock' = "free"
    /\ cpc' = "loop_wait_ok"
    /\ CtorVarsUnchanged
    /\ UNCHANGED <<bf_ts, registered, t0, latest, regionVars, queue_fun,
                   queueVars, phaseVars, replica, ready_sent, storeVars,
                   drainCounters>>

\* Line 179: wait_until_ok_to_receive_backfill.
WaitOkToReceive ==
    /\ cpc = "loop_wait_ok"
    /\ ~interruptor
    /\ cpc' = "lock1"
    /\ CtorVarsUnchanged
    /\ UNCHANGED <<bf_ts, registered, t0, latest, rwlock, regionVars, queue_fun,
                   queueVars, phaseVars, replica, ready_sent, storeVars,
                   drainCounters>>

BackfillStartTimestampAtIntro(lat) == t0

\* Lines 196-197: timestamp_enforcer_->get_latest_all_before_completed().
BackfillStartTimestamp(lat) == lat

\* Lines 181-209: under the exclusive lock, start queueing what was discarded,
\* install the immediate-ack queue function, capture the start timestamp;
\* release the lock and send the synchronize request.
BeginPhase ==
    /\ cpc = "lock1"
    /\ ~interruptor
    /\ rwlock = "free"
    /\ region_queueing' = region_discarding
    /\ region_discarding' = EmptyRange
    /\ queue' = <<>>
    /\ pushed_ts' = <<>>
    /\ queue_fun' = "immediate"
    /\ backfill_start_timestamp' = BackfillStartTimestamp(latest)
    /\ cpc' = "sync"
    /\ CtorVarsUnchanged
    /\ UNCHANGED <<bf_ts, registered, t0, latest, rwlock, region_streaming,
                   ack_queue, acks_to_release, right_bound, bets, replica,
                   ready_sent, storeVars, drainCounters>>

\* Lines 210-240: the backfiller acks once it has reached the start
\* timestamp; the callback object is constructed.
SyncAck ==
    /\ cpc = "sync"
    /\ ~interruptor
    /\ bf_ts' = MaxOf(bf_ts, backfill_start_timestamp)
    /\ right_bound' = region_queueing.left
    /\ bets' = EmptyBets
    /\ cpc' = "backfill"
    /\ CtorVarsUnchanged
    /\ UNCHANGED <<registered, t0, latest, rwlock, regionVars, queue_fun,
                   queueVars, backfill_start_timestamp, replica, ready_sent,
                   storeVars, drainCounters>>


\* A chunk delivered by the backfiller: a region map over [lo, hi) of one or
\* two pieces with non-decreasing timestamps.
ChunkMaps(lo, hi, tlo, thi) ==
    {[domain |-> Range(lo, hi), pieces |-> <<<<lo, ts>>>>] : ts \in tlo .. thi}
    \cup
    {[domain |-> Range(lo, hi), pieces |-> <<<<lo, p[2]>>, <<p[1], p[3]>>>>] :
        p \in {q \in ((lo + 1) .. (hi - 1)) \X (tlo .. thi) \X (tlo .. thi) :
                 q[2] <= q[3]}}

\* The timestamp a region map gives to key k (the last piece at or left of k).
PieceTs(rm, k) ==
    LET n == Len(rm.pieces)
        i == CHOOSE j \in 1 .. n :
                 /\ rm.pieces[j][1] <= k
                 /\ (j = n \/ k < rm.pieces[j + 1][1])
    IN  rm.pieces[i][2]

on_progress_continue_always(qsize, config_count) == TRUE

\* on_progress returns whether the backfill may continue.
on_progress_continue(qsize, config_count) == qsize < config_count

\* Lines 222-231 with the backfillee's write of the chunk to the store:
\* callback_t::on_progress.  backfillee.go() returns when the callback
\* returns false or the end of the region is reached.
BackfillChunk ==
    /\ cpc = "backfill"
    /\ ~interruptor
    /\ right_bound < region.right
    /\ \E hi \in (right_bound + 1) .. region.right :
       \E chunk \in ChunkMaps(right_bound, hi, bf_ts, MaxIssuable) :
         /\ bf_ts' = chunk.pieces[Len(chunk.pieces)][2]
         /\ writes' \in Issued(writes, bf_ts')
         /\ data' = [k \in AllKeys |->
                       IF k \in KeysOf(chunk.domain)
                       THEN IdealIn(writes', k, PieceTs(chunk, k))
                       ELSE data[k]]
         /\ metainfo' = [k \in AllKeys |->
                           IF k \in KeysOf(chunk.domain)
                           THEN Version(PieceTs(chunk, k)) ELSE metainfo[k]]
         /\ right_bound' = hi
         /\ bets' = combine(bets, BetsFromRegionMap(chunk))
         /\ cpc' = IF on_progress_continue(Len(queue), write_queue_count)
                      /\ hi < region.right
                   THEN "backfill" ELSE "wait_max"
    /\ UNCHANGED <<cfgVars, hdrain, hpc, pulsed, sync_ops, null_deref,
                   mapVars, waitVars, admitted, interruptor>>
    /\ UNCHANGED <<registered, t0, latest, rwlock, regionVars, queue_fun,
                   queueVars, backfill_start_timestamp, replica, ready_sent,
                   ops, nexec, drainCounters>>

WaitedTimestampAtStart(b) == backfill_start_timestamp

\* Lines 250-251: the timestamp the constructor waits for.
WaitedTimestamp(b) == get_max_timestamp(b)

\* Lines 250-251: timestamp_enforcer_->wait_all_before(max_timestamp).
WaitAllBefore ==
    /\ cpc = "wait_max"
    /\ ~interruptor
    /\ latest >= WaitedTimestamp(bets)
    /\ cpc' = "lock2"
    /\ CtorVarsUnchanged
    /\ UNCHANGED <<bf_ts, registered, t0, latest, rwlock, regionVars, queue_fun,
                   queueVars, phaseVars, replica, ready_sent, storeVars,
                   drainCounters>>

\* Lines 257-263: the discarding region after the shrink.
DiscardingAfterShrink(rb) ==
    IF rb = Unbounded THEN EmptyRange ELSE Range(rb, region.right)

\* Lines 253-279: under the exclusive lock, shrink the queueing region to the
\* backfilled prefix and install the trickle-ack queue function.
EndPhase ==
    /\ cpc = "lock2"
    /\ ~interruptor
    /\ rwlock = "free"
    /\ region_queueing' = Range(region_queueing.left, right_bound)
    /\ region_discarding' = DiscardingAfterShrink(right_bound)
    /\ ack_queue' = <<>>
    /\ acks_to_release' = 0
    /\ queue_fun' = "trickle"
    /\ drain_pulsed' = 0
    /\ drain_finished' = 0
    /\ cpc' = "drain"
    /\ CtorVarsUnchanged
    /\ UNCHANGED <<bf_ts, registered, t0, latest, rwlock, region_streaming,
                   queue, pushed_ts, phaseVars, replica, ready_sent,
                   storeVars>>

ClipEntryUnclipped(entry, applicable) ==
    [path |-> "drain", ts |-> entry.timestamp, region |-> applicable,
     has_write |-> entry.has_write, keys |-> entry.keys,
     clipped |-> entry.keys \ KeysOf(applicable)]

\* Lines 431-448: the popped entry clipped to the applicable region.
ClipEntry(entry, applicable) ==
    [path |-> "drain", ts |-> entry.timestamp, region |-> applicable,
     has_write |-> entry.has_write /\ shard(entry.keys, applicable),
     keys |-> ShardKeys(entry.keys, applicable),
     clipped |-> entry.keys \ KeysOf(applicable)]

\* Line 431: queue->front().
QueueBack(q) == q[Len(q)]

QueueFront(q) == Head(q)

\* Lines 426-490: one iteration of the drain loop with a non-empty queue:
\* semaphore, pop, clip, write token, spawn.
DrainOne ==
    /\ cpc = "drain"
    /\ ~interruptor
    /\ queue # <<>>
    /\ DrainTasks < MAX_CONCURRENT_STREAM_QUEUE_ITEMS
    /\ LET entry == QueueFront(queue)
           applicable == region_for_timestamp(bets, entry.timestamp)
       IN  ops' = Append(ops, ClipEntry(entry, applicable))
    /\ queue' = Tail(queue)
    /\ CtorVarsUnchanged
    /\ UNCHANGED <<bf_ts, cpc, registered, t0, latest, rwlock, regionVars,
                   queue_fun, pushed_ts, ack_queue, acks_to_release, phaseVars,
                   replica,
                   ready_sent, nexec, data, metainfo, drainCounters>>

\* Lines 419-420 and 289-297: the queue is empty and the lock is not held;
\* on_queue_empty starts to acquire it.
DrainOnQueueEmpty ==
    /\ cpc = "drain"
    /\ queue = <<>>
    /\ rwlock # "ctor"
    /\ cpc' = "drain_lock"
    /\ CtorVarsUnchanged
    /\ UNCHANGED <<bf_ts, registered, t0, latest, rwlock, regionVars, queue_fun,
                   queueVars, phaseVars, replica, ready_sent, storeVars,
                   drainCounters>>

OnQueueEmptyNoLock(lock) == lock

\* Lines 294-295: on_queue_empty leaves the write lock held by the
\* constructor.
OnQueueEmptyLock(lock) == "ctor"

\* Lines 294-295 and 421-423: the lock is acquired; the loop ends if the
\* queue is still empty.
DrainLockAcquired ==
    /\ cpc = "drain_lock"
    /\ ~interruptor
    /\ rwlock = "free"
    /\ rwlock' = OnQueueEmptyLock(rwlock)
    /\ cpc' = IF queue = <<>> THEN "drain_join" ELSE "drain"
    /\ CtorVarsUnchanged
    /\ UNCHANGED <<bf_ts, registered, t0, latest, regionVars, queue_fun,
                   queueVars, phaseVars, replica, ready_sent, storeVars,
                   drainCounters>>

\* Lines 419-423 when the lock is already held: on_queue_empty does nothing.
DrainBreak ==
    /\ cpc = "drain"
    /\ queue = <<>>
    /\ rwlock = "ctor"
    /\ cpc' = "drain_join"
    /\ CtorVarsUnchanged
    /\ UNCHANGED <<bf_ts, registered, t0, latest, rwlock, regionVars, queue_fun,
                   queueVars, phaseVars, replica, ready_sent, storeVars,
                   drainCounters>>

QueueSentryKeep(fun) == fun

\* Line 195: queue_sentry(&queue_fun_, &queue_fun) goes out of scope, at the
\* end of the loop body or when an exception unwinds it: queue_fun_ is null
\* again.
QueueSentryReset(fun) == "null"

ReleaseRemainingNone(aq) == {}

\* Lines 316-322: every condition still in ack_queue is pulsed.
ReleaseRemaining(aq) == {aq[i] : i \in 1 .. Len(aq)}

PromotedStreamingKept(streaming, queueing) == streaming

\* Lines 329-330: Promote.
PromotedStreaming(streaming, queueing) == Range(streaming.left, queueing.right)

\* Lines 494-500 and 313-330: the tasks are joined, drain_stream_queue
\* returns, the remaining acks are released, queueing becomes streaming.
DrainReturn ==
    /\ cpc = "drain_join"
    /\ DrainTasks = 0
    /\ ~interruptor
    /\ pulsed' = pulsed \cup ReleaseRemaining(ack_queue)
    /\ hpc' = AfterPulse(hpc, ReleaseRemaining(ack_queue))
    /\ ack_queue' = <<>>
    /\ region_streaming' = PromotedStreaming(region_streaming, region_queueing)
    /\ region_queueing' = EmptyRange
    /\ queue_fun' = QueueSentryReset(queue_fun)
    /\ pushed_ts' = <<>>
    /\ cpc' = "loop"
    /\ UNCHANGED <<cfgVars, writes, hdrain, sync_ops, null_deref, mapVars, waitVars,
                   admitted, interruptor, bf_ts, registered, t0, latest, rwlock,
                   region_discarding, queue, acks_to_release, phaseVars,
                   replica, ready_sent, storeVars, drainCounters>>

\* Lines 172 and 333-341: the loop condition fails; the metainfo is read.
LoopExit ==
    /\ cpc = "loop"
    /\ ~LoopCondition(region_streaming)
    /\ cpc' = "metainfo"
    /\ CtorVarsUnchanged
    /\ UNCHANGED <<bf_ts, registered, t0, latest, rwlock, regionVars, queue_fun,
                   queueVars, phaseVars, replica, ready_sent, storeVars,
                   drainCounters>>

\* Lines 355-358: the replica is created and the lock released.
ReplicaInit ==
    /\ cpc = "metainfo"
    /\ ~interruptor
    /\ replica' = TRUE
    /\ rwlock' = "free"
    /\ cpc' = "send_ready"
    /\ CtorVarsUnchanged
    /\ UNCHANGED <<bf_ts, registered, t0, latest, regionVars, queue_fun,
                   queueVars, phaseVars, ready_sent, storeVars, drainCounters>>

\* Line 362: send(mailbox_manager, intro.ready_mailbox).
SendReady ==
    /\ cpc = "send_ready"
    /\ ready_sent' = ready_sent + 1
    /\ cpc' = "done"
    /\ CtorVarsUnchanged
    /\ UNCHANGED <<bf_ts, registered, t0, latest, rwlock, regionVars, queue_fun,
                   queueVars, phaseVars, replica, storeVars, drainCounters>>


\* ------------------------------------------------------------ interruption
\* The interruptor is pulsed while the constructor runs.
Interrupt ==
    /\ cpc \notin {"done", "failed"}
    /\ ~interruptor
    /\ interruptor' = TRUE
    /\ UNCHANGED <<cfgVars, writes, bf_ts, cpc, hdrain, registered, t0, latest,
                   admitted, rwlock, regionVars, queue_fun, queueVars,
                   phaseVars, replica, ready_sent, hpc, pulsed, storeVars,
                   drainCounters, sync_ops, null_deref, mapVars, waitVars>>

\* The suspension points of the constructor at which a pulsed interruptor
\* throws interrupted_exc_t.
CtorWaitPoints ==
    {"throttle", "wait_ok", "registering", "loop_wait_ok", "lock1", "sync",
     "backfill", "wait_max", "lock2", "drain", "drain_lock", "drain_join",
     "metainfo"}

\* interrupted_exc_t leaves the constructor: the tasks of the drainer are
\* joined (auto_drainer_t), queue_sentry resets queue_fun_, the lock is
\* released.
CtorInterrupted ==
    /\ cpc \in CtorWaitPoints
    /\ interruptor
    /\ cpc \in {"drain", "drain_lock", "drain_join"} => DrainTasks = 0
    /\ queue_fun' = QueueSentryReset(queue_fun)
    /\ rwlock' = "free"
    /\ cpc' = "failed"
    /\ CtorVarsUnchanged
    /\ UNCHANGED <<bf_ts, registered, t0, latest, regionVars, queueVars,
                   phaseVars, replica, ready_sent, storeVars, drainCounters>>

\* Lines 510 and 574 when the handlers' interruptor is pulsed:
\* wait_interruptible(&registered_, interruptor) and
\* wait_interruptible(&queue_throttler, interruptor) throw.
AfterDrainSignal(h) ==
    [t \in DOMAIN h |->
        IF h[t] \in {"throttle", "registered_wait"} THEN "interrupted"
        ELSE h[t]]

\* The client is destroyed (after the constructor threw, or later): the
\* mailboxes drain, which pulses their handlers' interruptor.
DestroyClient ==
    /\ cpc \in {"done", "failed"}
    /\ ~hdrain
    /\ hdrain' = TRUE
    /\ hpc' = AfterDrainSignal(hpc)
    /\ UNCHANGED <<cfgVars, writes, bf_ts, cpc, interruptor, registered, t0,
                   latest, admitted, rwlock, regionVars, queue_fun, queueVars,
                   phaseVars, replica, ready_sent, pulsed, storeVars,
                   drainCounters, sync_ops, null_deref, mapVars, waitVars>>

\* ------------------------------------------------------ the write handlers
QueueFunImmediateFront(q, aq, acc, entry, cond) ==
    [queue |-> <<entry>> \o q, ack_queue |-> aq, acks |-> acc,
     pulse |-> {cond}]

\* The immediate-ack queue function (lines 191-194).
QueueFunImmediate(q, aq, acc, entry, cond) ==
    [queue |-> Append(q, entry), ack_queue |-> aq, acks |-> acc,
     pulse |-> {cond}]

QueueFunTrickleNoDebit(q, aq, acc, entry, cond) ==
    IF acc >= TrickleDen
    THEN [queue |-> Append(q, entry), ack_queue |-> aq,
          acks |-> acc, pulse |-> {cond}]
    ELSE [queue |-> Append(q, entry), ack_queue |-> Append(aq, cond),
          acks |-> acc, pulse |-> {}]

\* The trickle-ack queue function (lines 269-277).
QueueFunTrickle(q, aq, acc, entry, cond) ==
    IF acc >= TrickleDen
    THEN [queue |-> Append(q, entry), ack_queue |-> aq,
          acks |-> acc - TrickleDen, pulse |-> {cond}]
    ELSE [queue |-> Append(q, entry), ack_queue |-> Append(aq, cond),
          acks |-> acc, pulse |-> {}]

\* The timestamps of the entries that a call of the queue function added
\* at the back of the queue q, giving q2.
PushedTimestamps(q, q2) ==
    [i \in 1 .. (Len(q2) - Len(q)) |-> q2[Len(q) + i].timestamp]

\* Lines 546-558: the call of *queue_fun_, or the pulse when it is null.
CallQueueFun(fun, q, aq, acc, entry, cond) ==
    IF fun = "immediate" THEN QueueFunImmediate(q, aq, acc, entry, cond)
    ELSE IF fun = "trickle" THEN QueueFunTrickle(q, aq, acc, entry, cond)
    ELSE [queue |-> q, ack_queue |-> aq, acks |-> acc, pulse |-> {cond}]

StreamingOpAlwaysWrite(keys, ts, streaming) ==
    [path |-> "stream", ts |-> ts, region |-> streaming,
     has_write |-> TRUE, keys |-> ShardKeys(keys, streaming),
     clipped |-> {}]

\* Lines 535-543: the operation of the streaming shard.
StreamingOp(keys, ts, streaming) ==
    [path |-> "stream", ts |-> ts, region |-> streaming,
     has_write |-> shard(keys, streaming), keys |-> ShardKeys(keys, streaming),
     clipped |-> {}]

QueueEntryPreviousTimestamp(keys, ts, queueing) ==
    [has_write |-> shard(keys, queueing), keys |-> ShardKeys(keys, queueing),
     timestamp |-> ts - 1]

\* Lines 548-550: the queue entry of the queueing shard.
QueueEntry(keys, ts, queueing) ==
    [has_write |-> shard(keys, queueing), keys |-> ShardKeys(keys, queueing),
     timestamp |-> ts]

ReplicaOpHard(path, keys, ts) ==
    [path |-> path, ts |-> ts, region |-> region, has_write |-> TRUE,
     keys |-> keys, clipped |-> {},
     durability |-> IF path = "replica" THEN "HARD" ELSE "given"]

\* replica_t::do_write: a write over the whole region of the store, with
\* write_durability_t::SOFT from on_write_async (line 523) and with the
\* durability of the message from on_write_sync (lines 593-595).
ReplicaOp(path, keys, ts) ==
    [path |-> path, ts |-> ts, region |-> region, has_write |-> TRUE,
     keys |-> keys, clipped |-> {},
     durability |-> IF path = "replica" THEN "SOFT" ELSE "given"]

WaitRegisteredSkipped(reg) == TRUE

\* Line 510: wait_interruptible(&registered_, interruptor) returns once
\* registered_ is pulsed.
WaitRegistered(reg) == reg

ReadLockNotTaken(lock) == TRUE

\* Line 513: rwlock_acq(&rwlock_, access_t::read, interruptor) is granted
\* when the constructor does not hold the lock for writing.
ReadLockAcquired(lock) == lock = "free"

AllBeforeCompletedNoWait(lat, ts) == TRUE

\* Line 511: timestamp_enforcer_->wait_all_before(ts) returns once every
\* timestamp up to ts has been completed.
AllBeforeCompleted(lat, ts) == lat >= ts

\* on_write_async, lines 510-561, for the write at timestamp T: from the
\* return of wait_all_before(T.pred()) to the release of the shared lock.
\* Nothing in between suspends.
RouteWrite(T) ==
    /\ WaitRegistered(registered)
    /\ ~hdrain
    /\ T > latest
    /\ AllBeforeCompleted(latest, T - 1)
    /\ T <= MaxIssuable
    /\ hpc[T] \in {"none", "registered_wait"}
    /\ ReadLockAcquired(rwlock)
    /\ writes' \in Issued(writes, T)
    /\ latest' = T
    /\ admitted' = Append(admitted, T)
    /\ IF replica
       THEN /\ ops' = Append(ops, ReplicaOp("replica", writes'[T], T))
            /\ hpc' = [hpc EXCEPT ![T] = "apply"]
            /\ UNCHANGED <<queueVars, pulsed, drain_pulsed>>
       ELSE LET r == CallQueueFun(queue_fun, queue, ack_queue, acks_to_release,
                                  QueueEntry(writes'[T], T, region_queueing), T)
            IN  /\ ops' = IF region_is_empty(region_streaming) THEN ops
                          ELSE Append(ops,
                                   StreamingOp(writes'[T], T, region_streaming))
                /\ queue' = r.queue
                /\ pushed_ts' = pushed_ts \o PushedTimestamps(queue, r.queue)
                /\ ack_queue' = r.ack_queue
                /\ acks_to_release' = r.acks
                /\ pulsed' = pulsed \cup r.pulse
                /\ drain_pulsed' = drain_pulsed + Cardinality(r.pulse)
                /\ hpc' = [hpc EXCEPT ![T] =
                             AfterRoute(~region_is_empty(region_streaming),
                                        T \in r.pulse)]
    /\ UNCHANGED <<cfgVars, bf_ts, cpc, interruptor, hdrain, registered,
                   t0, rwlock, regionVars, queue_fun, phaseVars, replica,
                   ready_sent, nexec, data, metainfo, drain_finished, sync_ops,
                   null_deref, mapVars, waitVars>>

\* ---------------------------------------------------------------- the store
OnFinishedOneEntryWhole(aq, acc) ==
    LET a == acc + TrickleDen
    IN  IF a >= TrickleDen /\ aq # <<>>
        THEN [ack_queue |-> Tail(aq), acks |-> a - TrickleDen,
              pulse |-> {Head(aq)}]
        ELSE [ack_queue |-> aq, acks |-> a, pulse |-> {}]

\* on_finished_one_entry (lines 300-311).
OnFinishedOneEntry(aq, acc) ==
    LET a == acc + trickle_num
    IN  IF a >= TrickleDen /\ aq # <<>>
        THEN [ack_queue |-> Tail(aq), acks |-> a - TrickleDen,
              pulse |-> {Head(aq)}]
        ELSE [ack_queue |-> aq, acks |-> a, pulse |-> {}]

\* Where the handler of an operation continues once the store has run it:
\* lines 567-577 after apply_write_or_metainfo, lines 524 and 577 after
\* replica_->do_write, lines 596-597 in on_write_sync.
AfterApplyNoThrottle(path, is_pulsed) == "acked"

AfterApply(path, is_pulsed) ==
    IF path = "stream" /\ hdrain THEN "interrupted"
    ELSE IF path = "stream" /\ ~is_pulsed THEN "throttle"
    ELSE "acked"

\* The store runs the operation holding the oldest write token, and the
\* coroutine that issued it continues: the handler after
\* apply_write_or_metainfo / do_write, the drainer's task with
\* on_finished_one_entry (lines 478-485).
StoreExec ==
    /\ nexec < Len(ops)
    /\ LET op == ops[nexec + 1]
       IN  /\ data' = StoreApplyData(data, op)
           /\ metainfo' = StoreApplyMeta(metainfo, op)
           /\ nexec' = nexec + 1
           /\ IF op.path = "drain"
              THEN LET r == OnFinishedOneEntry(ack_queue, acks_to_release)
                   IN  /\ ack_queue' = r.ack_queue
                       /\ acks_to_release' = r.acks
                       /\ pulsed' = pulsed \cup r.pulse
                       /\ drain_pulsed' = drain_pulsed + Cardinality(r.pulse)
                       /\ drain_finished' = drain_finished + 1
                       /\ hpc' = AfterPulse(hpc, r.pulse)
              ELSE /\ hpc' = [hpc EXCEPT ![op.ts] =
                                AfterApply(op.path, op.ts \in pulsed)]
                   /\ UNCHANGED <<ack_queue, acks_to_release, pulsed,
                                  drainCounters>>
    /\ UNCHANGED <<cfgVars, writes, bf_ts, cpc, interruptor, hdrain, registered,
                   t0, latest, admitted, rwlock, regionVars, queue_fun, queue,
                   pushed_ts,
                   phaseVars, replica, ready_sent, ops, sync_ops, null_deref,
                   mapVars, waitVars>>

\* The store operation is interrupted before it runs: the drainer's task ends
\* without calling on_finished_one_entry (lines 487-489); a handler throws.
StoreAbandon ==
    /\ nexec < Len(ops)
    /\ LET op == ops[nexec + 1]
       IN  /\ IF op.path = "drain" THEN interruptor ELSE hdrain
           /\ nexec' = nexec + 1
           /\ hpc' = IF op.path = "drain" THEN hpc
                     ELSE [hpc EXCEPT ![op.ts] = "interrupted"]
    /\ UNCHANGED <<cfgVars, writes, bf_ts, cpc, interruptor, hdrain, registered,
                   t0, latest, admitted, rwlock, regionVars, queue_fun,
                   queueVars, phaseVars, replica, ready_sent, pulsed, ops, data,
                   metainfo, drainCounters, sync_ops, null_deref, mapVars, waitVars>>

\* ------------------------------------------------ sync writes and reads
\* on_write_sync (lines 580-598).  The primary sends sync writes only after
\* it has received the ready message.
OnWriteSync ==
    /\ ready_sent > 0
    /\ ~hdrain
    /\ sync_ops < MaxSyncOps
    /\ Len(writes) < MaxTs
    /\ latest = Len(writes)
    /\ \E keys \in WriteKeySets :
         /\ writes' = Append(writes, keys)
         /\ latest' = Len(writes) + 1
         /\ admitted' = Append(admitted, Len(writes) + 1)
         /\ IF replica
            THEN /\ ops' = Append(ops, ReplicaOp("sync", keys, Len(writes) + 1))
                 /\ hpc' = [hpc EXCEPT ![Len(writes) + 1] = "apply"]
                 /\ UNCHANGED null_deref
            ELSE /\ null_deref' = TRUE
                 /\ UNCHANGED <<ops, hpc>>
    /\ sync_ops' = sync_ops + 1
    /\ UNCHANGED <<cfgVars, bf_ts, cpc, interruptor, hdrain, registered, t0,
                   rwlock, regionVars, queue_fun, queueVars, phaseVars, replica,
                   ready_sent, pulsed, nexec, data, metainfo, drainCounters,
                   mapVars, waitVars>>

\* on_read (lines 600-609).
OnRead ==
    /\ ready_sent > 0
    /\ ~hdrain
    /\ null_deref' = (null_deref \/ ~replica)
    /\ UNCHANGED <<sync_ops, cfgVars, writes, bf_ts, cpc, interruptor, hdrain, registered,
                   t0, latest, admitted, rwlock, regionVars, queue_fun,
                   queueVars, phaseVars, replica, ready_sent, hpc, pulsed,
                   storeVars, drainCounters, mapVars, waitVars>>

\* ------------------------------------------------------- the specification
Next ==
    \/ AcquireThrottle
    \/ InitRegions
    \/ OnIntro
    \/ AcquireLock0
    \/ LoopEnter
    \/ WaitOkToReceive
    \/ BeginPhase
    \/ SyncAck
    \/ BackfillChunk
    \/ WaitAllBefore
    \/ EndPhase
    \/ DrainOne
    \/ DrainOnQueueEmpty
    \/ DrainLockAcquired
    \/ DrainBreak
    \/ DrainReturn
    \/ LoopExit
    \/ ReplicaInit
    \/ SendReady
    \/ Interrupt
    \/ CtorInterrupted
    \/ DestroyClient
    \/ \E T \in 1 .. MaxTs : RouteWrite(T)
    \/ StoreExec
    \/ StoreAbandon
    \/ OnWriteSync
    \/ OnRead

Spec == Init /\ [][Next]_vars

\* ------------------------------------------- a backfill without any chunk
\* backfillee_t::go is declared outside this file; nothing in its interface
\* (lines 242-245) makes it call on_progress before it returns.  This is
\* the return of go() with no chunk delivered: right_bound is still the
\* left bound of the queueing region and the map is still the default one,
\* whose max_timestamp was never assigned (line 22).  wait_all_before on
\* that value (lines 250-251) returns or blocks; this step is the case in
\* which it returns, and the case in which it blocks is a behaviour that
\* never takes the step.
BackfillNoChunk ==
    /\ cpc = "backfill"
    /\ ~interruptor
    /\ right_bound = region_queueing.left
    /\ bets = EmptyBets
    /\ cpc' = "lock2"
    /\ CtorVarsUnchanged
    /\ UNCHANGED <<bf_ts, registered, t0, latest, rwlock, regionVars, queue_fun,
                   queueVars, phaseVars, replica, ready_sent, storeVars,
                   drainCounters>>

NextNoChunk == Next \/ BackfillNoChunk

SpecNoChunk == Init /\ [][NextNoChunk]_vars

\* --------------------------------------- construction under fair scheduling
\* The runs in which the interruptor is never pulsed: the steps of Next
\* without the pulse and without the exception it raises.
NextLive ==
    \/ AcquireThrottle
    \/ InitRegions
    \/ OnIntro
    \/ AcquireLock0
    \/ LoopEnter
    \/ WaitOkToReceive
    \/ BeginPhase
    \/ SyncAck
    \/ BackfillChunk
    \/ WaitAllBefore
    \/ EndPhase
    \/ DrainOne
    \/ DrainOnQueueEmpty
    \/ DrainLockAcquired
    \/ DrainBreak
    \/ DrainReturn
    \/ LoopExit
    \/ ReplicaInit
    \/ SendReady
    \/ DestroyClient
    \/ \E T \in 1 .. MaxTs : RouteWrite(T)
    \/ StoreExec
    \/ StoreAbandon
    \/ OnWriteSync
    \/ OnRead

\* The constructor's coroutine runs whenever it can (the throttler, the
\* branch-history check and the rwlock grant it; lines 124-362).
CtorFairness ==
    /\ WF_vars(AcquireThrottle)
    /\ WF_vars(InitRegions)
    /\ WF_vars(AcquireLock0)
    /\ WF_vars(LoopEnter)
    /\ WF_vars(WaitOkToReceive)
    /\ WF_vars(BeginPhase)
    /\ WF_vars(WaitAllBefore)
    /\ WF_vars(EndPhase)
    /\ WF_vars(DrainOne)
    /\ WF_vars(DrainOnQueueEmpty)
    /\ WF_vars(DrainLockAcquired)
    /\ WF_vars(DrainBreak)
    /\ WF_vars(DrainReturn)
    /\ WF_vars(LoopExit)
    /\ WF_vars(ReplicaInit)
    /\ WF_vars(SendReady)

\* The primary sends the intro and every write it may send, the backfiller
\* acks the synchronize request and delivers its chunks, the store runs the
\* operations it was given.
PeerFairness ==
    /\ WF_vars(OnIntro)
    /\ WF_vars(\E T \in 1 .. MaxTs : RouteWrite(T))
    /\ WF_vars(SyncAck)
    /\ WF_vars(BackfillChunk)
    /\ WF_vars(StoreExec)

SpecLive == Init /\ [][NextLive]_vars /\ CtorFairness /\ PeerFairness

\* ------------------------------------ async writes that overtake the intro
\* Lines 139-157 and 510: the registrant has given the primary the address of
\* write_async_mailbox_, and a write message is handled before the intro
\* message: on_write_async starts and suspends in
\* wait_interruptible(&registered_, interruptor).  At most MaxEarly handlers
\* start that early.
WriteArrivesEarly(T) ==
    /\ cpc = "registering"
    /\ ~registered
    /\ ~hdrain
    /\ hpc[T] = "none"
    /\ Cardinality(EarlyWrites) < MaxEarly
    /\ hpc' = [hpc EXCEPT ![T] = "registered_wait"]
    /\ UNCHANGED <<cfgVars, writes, bf_ts, cpc, interruptor, hdrain, registered,
                   t0, latest, admitted, rwlock, regionVars, queue_fun,
                   queueVars, phaseVars, replica, ready_sent, pulsed,
                   storeVars, drainCounters, sync_ops, null_deref, mapVars,
                   waitVars>>

NextEarly ==
    \/ Next
    \/ \E T \in 1 .. (MaxT0 + MaxOutstanding) : WriteArrivesEarly(T)

SpecEarly == Init /\ [][NextEarly]_vars

\* ------------------------------------- backfill_end_timestamps_t on its own
\* The operations of backfill_end_timestamps_t applied to maps drawn from a
\* bounded set: keys 0 .. MaxMapKey-1, timestamps 0 .. MaxMapTs, at most
\* MaxMapSteps pieces per region map.
MapRanges ==
    {Range(l, r) : l \in 0 .. (MaxMapKey - 1), r \in 1 .. MaxMapKey} \ 
        {rg \in {Range(l, r) : l \in 0 .. (MaxMapKey - 1), r \in 1 .. MaxMapKey} :
            rg.right <= rg.left}

\* The region maps over rg that the constructor of lines 27-36 accepts: the
\* first piece starts at the left bound, the pieces are in key order, and the
\* timestamps do not decrease as keys increase.
RegionMapsOver(rg) ==
    UNION {
        {[domain |-> rg, pieces |-> ps] :
            ps \in {q \in [1 .. n -> (rg.left .. (rg.right - 1)) \X (0 .. MaxMapTs)] :
                      /\ q[1][1] = rg.left
                      /\ \A i \in 1 .. (n - 1) :
                             q[i][1] < q[i + 1][1] /\ q[i][2] <= q[i + 1][2]}}
        : n \in 1 .. MaxMapSteps}

\* The objects the code can hold: default-constructed, or built from a
\* region map.
MapObjects ==
    {EmptyBets} \cup
    {BetsFromRegionMap(rm) : rm \in UNION {RegionMapsOver(rg) : rg \in MapRanges}}

\* The state before the map operations run: two objects that combine()
\* accepts (lines 67-72).
InitMap ==
    /\ ClientInit
    /\ region = Range(MinKey, Unbounded)
    /\ mapA \in MapObjects
    /\ mapB \in MapObjects
    /\ CombineGuarantees(mapA, mapB)
    /\ mapT = 0
    /\ mapOut = EmptyBets
    /\ mapRegA = EmptyRange /\ mapRegB = EmptyRange /\ mapRegOut = EmptyRange
    /\ mpc = "start"
    /\ WaitIdle

\* mapA.combine(std::move(mapB)), on a copy of mapA.
MapCombine ==
    /\ mpc = "start"
    /\ mapOut' = combine(mapA, mapB)
    /\ mpc' = "combined"
    /\ UNCHANGED <<clientVars, waitVars, mapA, mapB, mapT, mapRegA, mapRegB,
                   mapRegOut>>

\* region_for_timestamp(t) on the two objects and on the combined one.
MapRegionForTimestamp ==
    /\ mpc \in {"combined", "queried"}
    /\ \E t \in 0 .. (MaxMapTs + 1) :
         /\ mapT' = t
         /\ mapRegA' = region_for_timestamp(mapA, t)
         /\ mapRegB' = region_for_timestamp(mapB, t)
         /\ mapRegOut' = region_for_timestamp(mapOut, t)
    /\ mpc' = "queried"
    /\ UNCHANGED <<clientVars, waitVars, mapA, mapB, mapOut>>

NextMap == MapCombine \/ MapRegionForTimestamp

SpecMap == InitMap /\ [][NextMap]_vars

\* ------------------------------------------------- the drain phase on its own
\* One drain phase, from the installation of the trickle-ack queue function
\* (line 279) to the return of drain_stream_queue, with a primary that sends
\* writes for as long as it has fewer than MaxOutstanding unacked ones.  The
\* streaming region is empty (the first iteration of the loop), the queued
\* entries are metainfo-only, and the store keeps only the operations it has
\* not run yet.  Handlers are named by the primary's slot 1 .. MaxOutstanding
\* instead of by timestamp: a slot is "none" when it holds no unacked write,
\* and the entries carry no timestamp of their own, so pushed_ts is not kept.
DrainEntry == [has_write |-> FALSE, keys |-> {}, timestamp |-> 1]

DrainPcs == {"drain", "drain_lock", "drain_join"}

InitDrain ==
    /\ region = Range(MinKey, Unbounded)
    /\ write_queue_count \in 1 .. MaxWriteQueueCount
    /\ trickle_num \in 1 .. TrickleDen
    /\ writes = <<>>
    /\ bf_ts = 0
    /\ cpc = "drain"
    /\ interruptor = FALSE
    /\ hdrain = FALSE
    /\ registered = TRUE
    /\ t0 = 0
    /\ latest = 0
    /\ admitted = <<>>
    /\ rwlock = "free"
    /\ region_streaming = EmptyRange
    /\ region_queueing = region
    /\ region_discarding = EmptyRange
    /\ queue_fun = "trickle"
    /\ queue \in {[i \in 1 .. n |-> DrainEntry] : n \in 0 .. MaxInitQueue}
    /\ pushed_ts = <<>>
    /\ ack_queue = <<>>
    /\ acks_to_release = 0
    /\ backfill_start_timestamp = 0
    /\ right_bound = Unbounded
    /\ bets = BetsFromRegionMap([domain |-> region, pieces |-> <<<<MinKey, 0>>>>])
    /\ replica = FALSE
    /\ ready_sent = 0
    /\ hpc = [s \in 1 .. MaxOutstanding |-> "none"]
    /\ pulsed = {}
    /\ ops = <<>>
    /\ nexec = 0
    /\ data = [k \in AllKeys |-> <<>>]
    /\ metainfo = [k \in AllKeys |-> Version(0)]
    /\ drain_pulsed = 0
    /\ drain_finished = 0
    /\ sync_ops = 0
    /\ null_deref = FALSE
    /\ MapIdle
    /\ WaitIdle

\* Line 577 seen from the primary: an acked write frees its slot.
SlotsAfterAck(h) ==
    [s \in DOMAIN h |-> IF h[s] = "acked" THEN "none" ELSE h[s]]

\* on_write_async (lines 510-577) for a write sent during the drain phase.
\* With count, the write is counted in latest and the pulse in drain_pulsed.
DrainSend(count) ==
    /\ cpc \in DrainPcs
    /\ ~hdrain
    /\ ReadLockAcquired(rwlock)
    /\ Len(queue) < MaxDrainQueue
    /\ count => latest < MaxDrainWrites
    /\ \E s \in DOMAIN hpc :
         /\ hpc[s] = "none"
         /\ \A s2 \in DOMAIN hpc : s2 < s => hpc[s2] # "none"
         /\ LET r == CallQueueFun(queue_fun, queue, ack_queue, acks_to_release,
                                  DrainEntry, s)
            IN  /\ queue' = r.queue
                /\ ack_queue' = r.ack_queue
                /\ acks_to_release' = r.acks
                /\ hpc' = SlotsAfterAck(
                       [hpc EXCEPT ![s] = AfterRoute(FALSE, s \in r.pulse)])
                /\ IF count
                   THEN /\ drain_pulsed' = drain_pulsed + Cardinality(r.pulse)
                        /\ latest' = latest + 1
                   ELSE UNCHANGED <<drain_pulsed, latest>>
    /\ UNCHANGED <<cfgVars, writes, bf_ts, cpc, interruptor, hdrain, registered,
                   t0, admitted, rwlock, regionVars, queue_fun, pushed_ts,
                   phaseVars, replica, ready_sent, pulsed, storeVars,
                   drain_finished,
                   sync_ops, null_deref, mapVars, waitVars>>

\* Lines 465-485: the store runs the oldest task of the drainer, which then
\* calls on_finished_one_entry.  With count, drain_pulsed and drain_finished
\* record it.
DrainStoreExec(count) ==
    /\ ops # <<>>
    /\ LET op == Head(ops)
           r == OnFinishedOneEntry(ack_queue, acks_to_release)
       IN  /\ data' = StoreApplyData(data, op)
           /\ metainfo' = StoreApplyMeta(metainfo, op)
           /\ ops' = Tail(ops)
           /\ ack_queue' = r.ack_queue
           /\ acks_to_release' = r.acks
           /\ hpc' = SlotsAfterAck(AfterPulse(hpc, r.pulse))
           /\ IF count
              THEN /\ drain_pulsed' = drain_pulsed + Cardinality(r.pulse)
                   /\ drain_finished' = drain_finished + 1
              ELSE UNCHANGED drainCounters
    /\ UNCHANGED <<cfgVars, writes, bf_ts, cpc, interruptor, hdrain, registered,
                   t0, latest, admitted, rwlock, regionVars, queue_fun, queue,
                   pushed_ts,
                   phaseVars, replica, ready_sent, pulsed, nexec, sync_ops,
                   null_deref, mapVars, waitVars>>

NextDrain ==
    \/ DrainSend(TRUE)
    \/ DrainOne
    \/ DrainOnQueueEmpty
    \/ DrainLockAcquired
    \/ DrainBreak
    \/ DrainStoreExec(TRUE)
    \/ DrainReturn

SpecDrain == InitDrain /\ [][NextDrain]_vars

NextDrainLive ==
    \/ DrainSend(FALSE)
    \/ DrainOne
    \/ DrainOnQueueEmpty
    \/ DrainLockAcquired
    \/ DrainBreak
    \/ DrainStoreExec(FALSE)
    \/ DrainReturn

\* Every runnable coroutine is eventually run: the drainer's loop, its tasks
\* at the store, and the acquisition of the lock.  Nothing makes the primary
\* send.
SpecDrainLive ==
    /\ InitDrain
    /\ [][NextDrainLive]_vars
    /\ WF_vars(DrainOne)
    /\ WF_vars(DrainOnQueueEmpty)
    /\ WF_vars(DrainLockAcquired)
    /\ WF_vars(DrainBreak)
    /\ WF_vars(DrainStoreExec(FALSE))
    /\ WF_vars(DrainReturn)

\* ----------------------------------------------- wait_for_table_readiness
\* table_status.cc, lines 150-216.  table_readiness_t is ordered
\* unavailable < outdated_reads < reads < writes < finished: 0 .. 4.
Readinesses == 0 .. 4

DeletedDatabase == "__deleted_database__"

\* What one poll can observe: whether convert_table_id_to_datums resolves
\* the table id, the database name it gives, how calculate_status ends
\* ("ok", "no_such_table" when it throws no_such_table_exc_t, "interrupted"
\* when it throws interrupted_exc_t, "none" when it is not called), and the
\* readiness it reports.
PollObservations(interrupted) ==
    {[resolved |-> FALSE, db_name |-> "db", calc |-> "none", readiness |-> 0],
     [resolved |-> TRUE, db_name |-> DeletedDatabase, calc |-> "none",
      readiness |-> 0],
     [resolved |-> TRUE, db_name |-> "db", calc |-> "no_such_table",
      readiness |-> 0]}
    \cup {[resolved |-> TRUE, db_name |-> "db", calc |-> "ok", readiness |-> r] :
             r \in Readinesses}
    \cup (IF interrupted
          THEN {[resolved |-> TRUE, db_name |-> "db", calc |-> "interrupted",
                 readiness |-> 0]}
          ELSE {})

PollOutcomeNoCatch(obs, wanted, imm) ==
    IF ~obs.resolved \/ obs.db_name = DeletedDatabase THEN "DELETED"
    ELSE IF obs.calc = "interrupted" THEN "interrupted"
    ELSE IF obs.calc = "no_such_table" THEN "no_such_table"
    ELSE IF obs.readiness >= wanted
         THEN (IF imm THEN "IMMEDIATE" ELSE "WAITED")
    ELSE "nap"

\* Lines 163-209: one pass through the try block.  The result is the value
\* returned, "interrupted" or "no_such_table" for the exception that leaves
\* the function, or "nap" when the loop goes on.
PollOutcome(obs, wanted, imm) ==
    IF ~obs.resolved \/ obs.db_name = DeletedDatabase THEN "DELETED"
    ELSE IF obs.calc = "interrupted" THEN "interrupted"
    ELSE IF obs.calc = "no_such_table" THEN "DELETED"
    ELSE IF obs.readiness >= wanted
         THEN (IF imm THEN "IMMEDIATE" ELSE "WAITED")
    ELSE "nap"

MinOf(a, b) == IF a <= b THEN a ELSE b

\* Lines 157-161: the call, with the readiness asked for.
InitWait ==
    /\ ClientInit
    /\ region = Range(MinKey, Unbounded)
    /\ MapIdle
    /\ wait_readiness \in Readinesses
    /\ interruptor_on_home = FALSE
    /\ immediate = TRUE
    /\ current_poll_ms = initial_poll_ms
    /\ wait_obs = NoObs
    /\ wait_result = "none"
    /\ wait_pc = "poll"

\* The caller's interruptor is pulsed.
WaitInterrupt ==
    /\ wait_pc \in {"poll", "nap"}
    /\ ~interruptor_on_home
    /\ interruptor_on_home' = TRUE
    /\ UNCHANGED <<clientVars, mapVars, wait_readiness, immediate,
                   current_poll_ms, wait_obs, wait_result, wait_pc>>

\* Lines 163-212: one poll.
WaitPoll ==
    /\ wait_pc = "poll"
    /\ \E obs \in PollObservations(interruptor_on_home) :
         LET out == PollOutcome(obs, wait_readiness, immediate)
         IN  /\ wait_obs' = obs
             /\ wait_pc' = CASE out = "nap" -> "nap"
                              [] out \in {"interrupted", "no_such_table"} -> out
                              [] OTHER -> "returned"
             /\ wait_result' = IF out \in {"DELETED", "IMMEDIATE", "WAITED"}
                               THEN out ELSE "none"
             /\ immediate' = IF out = "nap" THEN FALSE ELSE immediate
    /\ UNCHANGED <<clientVars, mapVars, wait_readiness, interruptor_on_home,
                   current_poll_ms>>

\* Lines 213-214: nap(current_poll_ms, interruptor_on_home), then the period
\* doubles up to max_poll_ms.
WaitNap ==
    /\ wait_pc = "nap"
    /\ IF interruptor_on_home
       THEN wait_pc' = "interrupted" /\ UNCHANGED current_poll_ms
       ELSE /\ wait_pc' = "poll"
            /\ current_poll_ms' = MinOf(max_poll_ms, current_poll_ms * 2)
    /\ UNCHANGED <<clientVars, mapVars, wait_readiness, interruptor_on_home,
                   immediate, wait_obs, wait_result>>

NextWait == WaitInterrupt \/ WaitPoll \/ WaitNap

SpecWait == InitWait /\ [][NextWait]_vars


\* ================================================================= claims
\* The store as a read token taken now would see it.
Flushed == Flush([data |-> data, metainfo |-> metainfo], ops, nexec + 1)

\* C1: once construction has completed (the replica exists) and while the
\* client is alive, the store's value of every key of the assigned region is
\* the result of applying every write that touches the key exactly once, in
\* timestamp order: nothing the backfill already contained is applied again
\* and nothing later than the backfill is dropped.
C1_ExactlyOnceApply ==
    (replica /\ ~hdrain) =>
        \A k \in KeysOf(region) : Flushed.data[k] = Ideal(k, latest)

\* C1 witness: construction is complete, and the drainer both dropped a part
\* of a queued write that the backfill already contained and applied a
\* queued write.
C1_Witness ==
    /\ cpc = "done"
    /\ nexec = Len(ops)
    /\ \E i \in 1 .. Len(ops) : ops[i].path = "drain" /\ ops[i].clipped # {}
    /\ \E i \in 1 .. Len(ops) : ops[i].path = "drain" /\ ops[i].has_write

Disjoint(a, b) == KeysOf(a) \cap KeysOf(b) = {}

LeftOf(a, b) == \A x \in KeysOf(a) : \A y \in KeysOf(b) : x < y

\* C2: whenever a write handler can observe the regions (the client is
\* registered and the exclusive lock is not held), streaming, queueing and
\* discarding are pairwise disjoint, in that key order, and their union is
\* the assigned region.
C2_Partition ==
    (registered /\ rwlock = "free") =>
        /\ Disjoint(region_streaming, region_queueing)
        /\ Disjoint(region_streaming, region_discarding)
        /\ Disjoint(region_queueing, region_discarding)
        /\ LeftOf(region_streaming, region_queueing)
        /\ LeftOf(region_streaming, region_discarding)
        /\ LeftOf(region_queueing, region_discarding)
        /\ KeysOf(region_streaming) \cup KeysOf(region_queueing)
             \cup KeysOf(region_discarding) = KeysOf(region)

\* C3: for every key, the store operations that touch the key carry strictly
\* increasing timestamps in write-token order.
C3_IncreasingPerKey ==
    \A i, j \in 1 .. Len(ops) :
        (i < j /\ KeysOf(ops[i].region) \cap KeysOf(ops[j].region) # {})
            => ops[i].ts < ops[j].ts

\* C3 witness: a key received an operation from the drainer and, after the
\* promotion of its region, one from the streaming path.
C3_Witness ==
    \E i, j \in 1 .. Len(ops) :
        /\ i < j
        /\ ops[i].path = "drain" /\ ops[j].path = "stream"
        /\ KeysOf(ops[i].region) \cap KeysOf(ops[j].region) # {}

\* The handler of T has sent its ack only after its store operation ran and,
\* on the constructing path, after its throttle condition was pulsed.
AckedAfterCompletion(h, n, p) ==
    \A T \in 1 .. MaxTs :
        h[T] = "acked" =>
            /\ \A i \in 1 .. Len(ops) :
                   (ops[i].ts = T /\ ops[i].path # "drain") => i <= n
            /\ \/ T \in p
               \/ \E i \in 1 .. Len(ops) :
                      ops[i].ts = T /\ ops[i].path \in {"replica", "sync"}

\* C4: an ack is sent only after the handler's streaming operation has
\* completed and its throttle condition has been pulsed (on the fast path:
\* after do_write has returned), and a handler that was interrupted never
\* sends an ack.
C4_AckAfterCompletion ==
    [][/\ AckedAfterCompletion(hpc', nexec', pulsed')
       /\ \A T \in 1 .. MaxTs :
              hpc[T] = "interrupted" => hpc'[T] = "interrupted"]_vars

\* C4 witness: a write that was both streamed and queued has been acked, and
\* another handler was interrupted.
C4_Witness ==
    /\ \E T \in 1 .. MaxTs :
         /\ hpc[T] = "acked"
         /\ \E i \in 1 .. Len(ops) : ops[i].ts = T /\ ops[i].path = "stream"
         /\ \E i \in 1 .. Len(ops) : ops[i].ts = T /\ ops[i].path = "drain"
    /\ \E T \in 1 .. MaxTs : hpc[T] = "interrupted"

AdmitIndex(T) == CHOOSE i \in 1 .. Len(admitted) : admitted[i] = T

TokenPaths == {"stream", "drain"}

\* C7 as stated: for any two writes that obtain a write token, the one
\* admitted first has its token requested first, whichever path requests it.
C7_TokenOrderAnyPath ==
    \A i, j \in 1 .. Len(ops) :
        (/\ ops[i].path \in TokenPaths /\ ops[j].path \in TokenPaths
         /\ AdmitIndex(ops[i].ts) < AdmitIndex(ops[j].ts)) => i < j

\* C7 amended: among the tokens requested by the streaming path, and among
\* the tokens requested by the queue drainer, tokens are requested in the
\* order in which the writes were admitted through the enforcer.
C7_TokenOrderPerPath ==
    \A i, j \in 1 .. Len(ops) :
        (/\ ops[i].path \in TokenPaths /\ ops[j].path = ops[i].path
         /\ AdmitIndex(ops[i].ts) < AdmitIndex(ops[j].ts)) => i < j

\* C7 witness: the drainer requested tokens for two writes, and the
\* streaming path requested one for the later write before them.
C7_Witness ==
    \E i, j, k \in 1 .. Len(ops) :
        /\ i < j /\ j < k
        /\ ops[i].path = "stream"
        /\ ops[j].path = "drain" /\ ops[k].path = "drain"
        /\ ops[j].ts < ops[i].ts

\* C10: the ready message is sent at most once and only after the replica
\* exists; the replica exists only when the streaming region reaches the
\* right bound of the assigned region and nothing is queued or discarded;
\* no sync write or read finds replica_ empty.
C10_ReadyAfterReplica ==
    /\ ready_sent <= 1
    /\ ready_sent > 0 => replica
    /\ replica =>
         /\ region_streaming.right = region.right
         /\ region_is_empty(region_queueing)
         /\ region_is_empty(region_discarding)
    /\ ~null_deref

\* C10 witness: after the ready message a sync write was served.
C10_Witness ==
    /\ ready_sent = 1
    /\ \E i \in 1 .. Len(ops) : ops[i].path = "sync" /\ i <= nexec

\* Keys of the map operations' key space that lie in a range.
MapKeysOf(r) == {k \in 0 .. (MaxMapKey - 1) : r.left <= k /\ k < r.right}

\* The backfill end timestamp a map records for key k of its region: that of
\* the last step at or left of k.
StepTs(b, k) ==
    LET n == Len(b.steps)
        i == CHOOSE j \in 1 .. n :
                 /\ b.steps[j][1] <= k
                 /\ (j = n \/ k < b.steps[j + 1][1])
    IN  b.steps[i][2]

\* C8: for maps A and B over adjacent regions (or either one empty) and every
\* timestamp t, region_for_timestamp(t) on A.combine(B) is the concatenation
\* of A.region_for_timestamp(t) and B.region_for_timestamp(t): it starts at
\* the left bound of the combined region and holds exactly the keys of the
\* two separate results.
C8_CombineJoin ==
    mpc = "queried" =>
        /\ MapKeysOf(mapRegOut) = MapKeysOf(mapRegA) \cup MapKeysOf(mapRegB)
        /\ mapRegOut.left = mapOut.region.left
        /\ MapKeysOf(mapOut.region)
             = MapKeysOf(mapA.region) \cup MapKeysOf(mapB.region)

\* C8 witness: the boundary timestamps were equal, B's first step was
\* dropped, and the result for t reaches into B's region without covering it.
C8_Witness ==
    /\ mpc = "queried"
    /\ ~region_is_empty(mapA.region) /\ ~region_is_empty(mapB.region)
    /\ Len(mapOut.steps) < Len(mapA.steps) + Len(mapB.steps)
    /\ MapKeysOf(mapRegB) # {}
    /\ MapKeysOf(mapRegB) # MapKeysOf(mapB.region)

\* C9: region_for_timestamp(t) returns exactly the keys of the map's region
\* whose backfill end timestamp is less than t, as a prefix that starts at
\* the region's left bound; it is empty when the first step's timestamp is
\* >= t and the whole region when t is greater than max_timestamp.
C9_RegionForTimestamp ==
    (mpc = "queried" /\ ~region_is_empty(mapOut.region)) =>
        /\ MapKeysOf(mapRegOut)
             = {k \in MapKeysOf(mapOut.region) : StepTs(mapOut, k) < mapT}
        /\ mapRegOut.left = mapOut.region.left
        /\ mapOut.steps[1][2] >= mapT => region_is_empty(mapRegOut)
        /\ mapT > get_max_timestamp(mapOut) => mapRegOut = mapOut.region

\* C9 witness: the result is a non-empty proper prefix of the region of a
\* map that was combined from two.
C9_Witness ==
    /\ mpc = "queried"
    /\ ~region_is_empty(mapA.region) /\ ~region_is_empty(mapB.region)
    /\ MapKeysOf(mapRegOut) # {}
    /\ MapKeysOf(mapRegOut) # MapKeysOf(mapOut.region)

\* C5: during a drain phase the number of throttle conditions pulsed is at
\* most (number of completion callbacks run) x trickle_fraction + 1, for
\* every trickle_fraction trickle_num / TrickleDen in (0, 1].
C5_Backpressure ==
    cpc \in DrainPcs =>
        drain_pulsed * TrickleDen <= drain_finished * trickle_num + TrickleDen

\* C5 witness: during the drain, conditions were pulsed both at enqueue and
\* by the completion callback, and a condition is still deferred.
C5_Witness ==
    /\ cpc \in DrainPcs
    /\ drain_pulsed >= 2
    /\ drain_finished < latest
    /\ ack_queue # <<>>

\* The cap on the queue length in DrainSend does not bind.
DrainQueueCapUnused == Len(queue) < MaxDrainQueue

\* C6: with a trickle fraction strictly between 0 and 1, no interruption and
\* fair scheduling, the drain phase terminates: drain_stream_queue returns
\* with the queue empty.
C6_DrainTerminates ==
    (trickle_num < TrickleDen) ~> (cpc = "loop" /\ queue = <<>>)

\* C6 witness: the drain returned with a trickle fraction below 1 while a
\* write that arrived during the drain was still waiting for its ack.
C6_Witness ==
    /\ trickle_num < TrickleDen
    /\ cpc = "loop" /\ queue = <<>>
    /\ \E s \in DOMAIN hpc : hpc[s] = "acked"

\* The suspension points of construction that C11 names: throttle lock,
\* registration wait, lock acquisition, synchronize ack, backfill,
\* wait_all_before, drain.
InterruptPoints ==
    {"throttle", "wait_ok", "registering", "loop_wait_ok", "lock1", "sync",
     "backfill", "wait_max", "lock2", "drain", "drain_lock", "drain_join"}

\* C11: once the interruptor is pulsed at a suspension point of construction,
\* the constructor can only stay at suspension points or fail (it makes no
\* further progress), no replica exists and no ready message has been sent;
\* a failed construction stays failed, and once the constructor has unwound
\* queue_fun_ is null, no replica exists and no ready message has been sent.
C11_InterruptedConstruction ==
    [][/\ (interruptor /\ cpc \in InterruptPoints) =>
             /\ cpc' \in InterruptPoints \cup {"failed"}
             /\ ~replica' /\ ready_sent' = 0
       /\ cpc = "failed" => cpc' = "failed"
       /\ cpc' = "failed" =>
             /\ queue_fun' = "null" /\ ~replica' /\ ready_sent' = 0
             /\ interruptor']_vars

\* C11 witness: the constructor was interrupted after at least one backfill
\* chunk, has unwound, and a write was routed afterwards.
C11_Witness ==
    /\ cpc = "failed"
    /\ bets.steps # <<>>
    /\ latest > get_max_timestamp(bets)

\* C12: when the construction loop has exited normally, the metainfo of every
\* key of the assigned region, read through a read token taken at that point,
\* is (branch, latest_all_before_completed()): the check of lines 333-351
\* cannot fail.
C12_MetainfoAtLoopExit ==
    cpc = "metainfo" =>
        \A k \in KeysOf(region) : Flushed.metainfo[k] = Version(latest)

\* C12 witness: the loop exited after two phases, a drained entry was a
\* metainfo-only advance, and stream writes arrived after the backfill.
C12_Witness ==
    /\ cpc = "metainfo"
    /\ \E i \in 1 .. Len(ops) : ops[i].path = "drain" /\ ~ops[i].has_write
    /\ \E i \in 1 .. Len(ops) : ops[i].path = "stream"
    /\ latest > bf_ts

\* A poll observed that the table or its database is gone.
ObservedDeleted(obs) ==
    \/ ~obs.resolved
    \/ obs.db_name = DeletedDatabase
    \/ obs.calc = "no_such_table"

\* C13: a poll that cannot resolve the table id, finds the database name
\* "__deleted_database__" or has the status calculation report no such table
\* makes wait_for_table_readiness return DELETED: no no-such-table error
\* leaves it, and IMMEDIATE or WAITED are returned only for a poll that
\* observed none of these and the readiness asked for.  An interruption
\* leaves the function as an interruption, never as DELETED.
C13_DeletedResult ==
    /\ wait_pc # "no_such_table"
    /\ (wait_pc \in {"poll", "nap"}) => ~ObservedDeleted(wait_obs)
    /\ ObservedDeleted(wait_obs) =>
          wait_pc = "returned" /\ wait_result = "DELETED"
    /\ wait_result = "DELETED" => ObservedDeleted(wait_obs)
    /\ wait_result \in {"IMMEDIATE", "WAITED"} =>
          wait_obs.calc = "ok" /\ wait_obs.readiness >= wait_readiness
    /\ wait_pc = "interrupted" =>
          /\ interruptor_on_home
          /\ wait_result = "none"
          /\ ~ObservedDeleted(wait_obs)

\* C13 witness: after at least one nap, the status calculation reported no
\* such table and DELETED was returned.
C13_Witness ==
    /\ wait_pc = "returned"
    /\ wait_result = "DELETED"
    /\ ~immediate
    /\ wait_obs.calc = "no_such_table"

\* C14: the handler of the async write at timestamp B takes the shared lock
\* and makes its routing decision only when every async write with a smaller
\* timestamp has called complete(); the decisions are made one timestamp at
\* a time, in increasing timestamp order.
C14_RoutingInTimestampOrder ==
    [][\A B \in 1 .. MaxTs :
         (hpc[B] = "none" /\ hpc'[B] # "none" /\ sync_ops' = sync_ops) =>
            /\ rwlock = "free"
            /\ \A A \in (t0 + 1) .. (B - 1) :
                  \E i \in 1 .. Len(admitted) : admitted[i] = A
            /\ \A i \in 1 .. Len(admitted) : admitted[i] < B
            /\ admitted' = Append(admitted, B)
            /\ \A C \in (1 .. MaxTs) \ {B} :
                  (hpc'[C] = "none") <=> (hpc[C] = "none")]_vars

\* C14 witness: during construction three async writes have been routed, one
\* of them onto the streaming path and one into the queue.
C14_Witness ==
    /\ ~replica
    /\ Len(admitted) >= 3
    /\ \E i \in 1 .. Len(ops) : ops[i].path = "stream"
    /\ queue # <<>>

\* An async write is routed in this step (a sync write is not).
AsyncRouted(T) == hpc[T] = "none" /\ hpc'[T] # "none" /\ sync_ops' = sync_ops

\* The timestamps of ts are consecutive and increasing.
Consecutive(ts) == \A i \in 2 .. Len(ts) : ts[i] = ts[i - 1] + 1

\* C15: while a queue function is installed, the routing of an async write
\* during construction pushes exactly one entry at the back of the queue,
\* with the write's timestamp and with has_write false when the queueing
\* shard of the write is empty; the timestamps pushed to a phase's queue are
\* consecutive and increasing in push order.
C15_OneEntryPerWrite ==
    [][/\ \A T \in 1 .. MaxTs :
            (AsyncRouted(T) /\ ~replica /\ queue_fun # "null") =>
               /\ Len(queue') = Len(queue) + 1
               /\ SubSeq(queue', 1, Len(queue)) = queue
               /\ queue'[Len(queue')].timestamp = T
               /\ queue'[Len(queue')].has_write =
                     (writes'[T] \cap KeysOf(region_queueing) # {})
               /\ pushed_ts' = Append(pushed_ts, T)
       /\ Consecutive(pushed_ts')]_vars

\* C15 witness: two entries were pushed in the phase, the first already
\* popped, and the back entry has an empty queueing shard.
C15_Witness ==
    /\ queue_fun # "null"
    /\ Len(pushed_ts) >= 2
    /\ Len(queue) = 1
    /\ ~queue[1].has_write

\* C16: for as long as the queue function of a phase is installed, the
\* timestamps pushed to the phase's queue are exactly those of the async
\* writes routed so far with a timestamp above backfill_start_timestamp:
\* none of them is missing and no write at or below it has an entry.
C16_QueueCoversPhase ==
    queue_fun # "null" =>
        /\ backfill_start_timestamp <= latest
        /\ pushed_ts = [i \in 1 .. (latest - backfill_start_timestamp) |->
                           backfill_start_timestamp + i]

\* C16 witness: a phase that began after writes had already been routed,
\* with a write pushed to its queue.
C16_Witness ==
    /\ queue_fun # "null"
    /\ backfill_start_timestamp > t0
    /\ pushed_ts # <<>>
    /\ \E i \in 1 .. Len(admitted) : admitted[i] <= backfill_start_timestamp

\* C17: when the queueing region is shrunk to the backfilled prefix, every
\* timestamp above backfill_start_timestamp and up to the max_timestamp of
\* the backfill-end-timestamp map has been pushed to the phase's queue; an
\* entry pushed from then on has a timestamp above max_timestamp, and
\* region_for_timestamp gives the whole backfilled region for it.
C17_QueueCompleteAtEndPhase ==
    [][/\ (cpc = "lock2" /\ cpc' = "drain") =>
            \A t \in (backfill_start_timestamp + 1) .. get_max_timestamp(bets) :
                \E i \in 1 .. Len(pushed_ts) : pushed_ts[i] = t
       /\ (queue_fun = "trickle" /\ queue_fun' = "trickle") =>
            \A i \in (Len(pushed_ts) + 1) .. Len(pushed_ts') :
                /\ pushed_ts'[i] > get_max_timestamp(bets)
                /\ region_for_timestamp(bets, pushed_ts'[i]) =
                      Range(region_queueing.left, right_bound)
                /\ region_queueing = Range(region_queueing.left, right_bound)
      ]_vars

\* C17 witness: the backfill went beyond its start timestamp, in two steps
\* of different timestamps, and an entry was pushed after the shrink.
C17_Witness ==
    /\ queue_fun = "trickle"
    /\ Len(bets.steps) >= 2
    /\ get_max_timestamp(bets) > backfill_start_timestamp
    /\ pushed_ts # <<>>
    /\ pushed_ts[Len(pushed_ts)] > get_max_timestamp(bets)

\* C18: when the store runs the operation of a drained queue entry with
\* timestamp t, the data and the metainfo change only on keys inside
\* bets.region_for_timestamp(t); when that region is empty nothing changes
\* on any key.  The timestamp of the entry was completed on the enforcer
\* when it was pushed.
C18_DrainFrame ==
    [][(nexec' = nexec + 1 /\ ops[nexec + 1].path = "drain") =>
          LET op == ops[nexec + 1]
              applicable == region_for_timestamp(bets, op.ts)
          IN  /\ \A k \in AllKeys \ KeysOf(applicable) :
                    data'[k] = data[k] /\ metainfo'[k] = metainfo[k]
              /\ region_is_empty(applicable) =>
                    data' = data /\ metainfo' = metainfo
              /\ op.ts <= latest
              /\ \E i \in 1 .. Len(admitted) : admitted[i] = op.ts]_vars

\* C18 witness: the store has run the operation of a drained entry that
\* carried a write and whose applicable region was empty, and of one whose
\* applicable region was not.
C18_Witness ==
    /\ \E i \in 1 .. nexec :
          /\ ops[i].path = "drain"
          /\ region_is_empty(ops[i].region)
          /\ ops[i].clipped # {}
          /\ \A k \in AllKeys : metainfo[k][2] >= ops[i].ts
    /\ \E i \in 1 .. nexec :
          /\ ops[i].path = "drain"
          /\ ~region_is_empty(ops[i].region)

\* C19: on_progress accepts every chunk: right_bound moves to the right
\* bound of the chunk and the map is extended to it, with the timestamp of
\* the chunk's last piece as its max_timestamp.  The backfill goes on after
\* the chunk only if the queue holds fewer than write_queue_count entries,
\* and it stops short of the end of the region only if the queue holds at
\* least that many; whatever the queue holds, the range backfilled by the
\* phase is not empty.
C19_OnProgress ==
    [][(cpc = "backfill" /\ <<right_bound, bets, cpc>>' # <<right_bound, bets, cpc>>
          /\ cpc' \in {"backfill", "wait_max"}) =>
          /\ right_bound' > right_bound
          /\ bets'.region = Range(region_queueing.left, right_bound')
          /\ get_max_timestamp(bets') = bf_ts'
          /\ bets'.steps # <<>>
          /\ bets'.steps[Len(bets'.steps)][2] = bf_ts'
          /\ cpc' = "backfill" => Len(queue) < write_queue_count
          /\ (cpc' = "wait_max" /\ right_bound' # region.right) =>
                Len(queue) >= write_queue_count
          /\ ~region_is_empty(Range(region_queueing.left, right_bound'))]_vars

\* C19 witness: the backfill was stopped before the end of the region by a
\* queue that was full, after a single chunk.
C19_Witness ==
    /\ cpc = "wait_max"
    /\ right_bound # region.right
    /\ Len(queue) >= write_queue_count
    /\ Len(bets.steps) = 1
    /\ right_bound = region_queueing.left + 1

\* C20: from the emptiness check that ends the drain loop to the promotion
\* the constructor holds the exclusive lock, the queue stays empty and no
\* async write is routed or pushed; at the promotion the store has finished
\* the operation of every entry that was ever pushed to the phase's queue.
C20_PromoteAfterDrain ==
    [][/\ cpc = "drain_join" => (rwlock = "ctor" /\ queue = <<>>)
       /\ (cpc = "drain_join" /\ cpc' \in {"drain_join", "loop"}) =>
            /\ latest' = latest
            /\ admitted' = admitted
            /\ queue' = <<>>
            /\ rwlock' = "ctor"
       /\ (cpc = "drain_join" /\ cpc' = "drain_join") => pushed_ts' = pushed_ts
       /\ (cpc = "drain_join" /\ cpc' = "loop") =>
            /\ region_streaming'.right = region_queueing.right
            /\ \A i \in 1 .. Len(pushed_ts) :
                  \E j \in 1 .. nexec :
                      ops[j].path = "drain" /\ ops[j].ts = pushed_ts[i]
            /\ DrainTasks = 0]_vars

\* C20 witness: a promotion is about to happen in a phase whose queue had
\* entries, the last of them pushed after the shrink of the queueing region.
C20_Witness ==
    /\ cpc = "drain_join"
    /\ DrainTasks = 0
    /\ ~interruptor
    /\ Len(pushed_ts) >= 2
    /\ pushed_ts[Len(pushed_ts)] > get_max_timestamp(bets)

\* The store takes up the operation of a drainer task in this step.
DrainTaskEnds == nexec' = nexec + 1 /\ ops[nexec + 1].path = "drain"

\* C21: drain_stream_queue is left, normally or by interruption, only when
\* every task it spawned has ended; with the interruptor pulsed it is left
\* by interruption, also with an empty queue, never normally; and a task
\* whose store operation did not take effect calls no on_finished_one_entry
\* (no ack is released, the accumulator is unchanged), which happens only
\* with the interruptor pulsed.
C21_DrainJoinsAndReraises ==
    [][/\ (cpc \in DrainPcs /\ cpc' \notin DrainPcs) =>
            /\ \A i \in (nexec + 1) .. Len(ops) : ops[i].path # "drain"
            /\ cpc' = IF interruptor THEN "failed" ELSE "loop"
       /\ (DrainTaskEnds /\ drain_finished' = drain_finished) =>
            /\ interruptor
            /\ data' = data /\ metainfo' = metainfo
            /\ ack_queue' = ack_queue
            /\ acks_to_release' = acks_to_release
            /\ pulsed' = pulsed
       /\ (DrainTaskEnds /\ drain_finished' # drain_finished) =>
            /\ drain_finished' = drain_finished + 1
            /\ data' = StoreApplyData(data, ops[nexec + 1])
            /\ metainfo' = StoreApplyMeta(metainfo, ops[nexec + 1])]_vars

\* C21 witness: the drain failed by interruption with its queue empty, after
\* a task of it had been interrupted at the store.
C21_Witness ==
    /\ cpc = "failed"
    /\ queue_fun = "null"
    /\ queue = <<>>
    /\ pushed_ts # <<>>
    /\ Cardinality({i \in 1 .. nexec :
            /\ ops[i].path = "drain"
            /\ \E j \in 1 .. Len(pushed_ts) : pushed_ts[j] = ops[i].ts})
         > drain_finished

\* C22: the map accumulated by the backfill callback has its steps strictly
\* ascending by left key, from the left bound of its region and inside it,
\* the timestamps of its steps non-decreasing along the sequence, and its
\* max_timestamp equal to the greatest timestamp of a step.
C22_BetsWellFormed ==
    bets.steps # <<>> =>
        /\ bets.steps[1][1] = bets.region.left
        /\ \A i \in 1 .. Len(bets.steps) : bets.steps[i][1] < bets.region.right
        /\ \A i \in 2 .. Len(bets.steps) :
              /\ bets.steps[i - 1][1] < bets.steps[i][1]
              /\ bets.steps[i - 1][2] <= bets.steps[i][2]
        /\ \E i \in 1 .. Len(bets.steps) :
              bets.steps[i][2] = get_max_timestamp(bets)
        /\ \A i \in 1 .. Len(bets.steps) :
              bets.steps[i][2] <= get_max_timestamp(bets)

\* C22 witness: the map of a finished backfill has two steps of different
\* timestamps, the first above the start timestamp of the phase.
C22_Witness ==
    /\ cpc = "lock2"
    /\ Len(bets.steps) = 2
    /\ bets.steps[1][2] < bets.steps[2][2]
    /\ bets.steps[1][2] > backfill_start_timestamp

\* A drained entry has been written to the store in this step and
\* on_finished_one_entry is called.
EntryFinished == drain_finished' = drain_finished + 1

\* The trickle-ack queue function is called in this step.
TricklePush == queue_fun = "trickle" /\ Len(queue') = Len(queue) + 1

\* C23 as stated: each completed entry adds the trickle fraction to
\* acks_to_release; whenever the sum reaches 1 (TrickleDen units) one ack is
\* released and the accumulator is decremented by 1; it is never negative.
C23_ReleaseOnCrossing ==
    [][/\ acks_to_release >= 0
       /\ EntryFinished =>
            LET a == acks_to_release + trickle_num
            IN  IF a >= TrickleDen
                THEN /\ acks_to_release' = a - TrickleDen
                     /\ drain_pulsed' = drain_pulsed + 1
                ELSE /\ acks_to_release' = a
                     /\ drain_pulsed' = drain_pulsed]_vars

\* C23, amended: each completed entry adds the trickle fraction to
\* acks_to_release; if the sum is at least 1 and an ack is waiting in
\* ack_queue, the oldest one is released and the accumulator is decremented
\* by 1; with no ack waiting the sum is kept, also above 1, and each later
\* call of the queue function that finds at least 1 decrements it by 1 and
\* acks its write at once instead of deferring it.  The accumulator is
\* never negative.
C23_ReleaseWhenWaiting ==
    [][/\ acks_to_release >= 0
       /\ EntryFinished =>
            LET a == acks_to_release + trickle_num
            IN  IF a >= TrickleDen /\ ack_queue # <<>>
                THEN /\ acks_to_release' = a - TrickleDen
                     /\ ack_queue' = Tail(ack_queue)
                     /\ drain_pulsed' = drain_pulsed + 1
                ELSE /\ acks_to_release' = a
                     /\ ack_queue' = ack_queue
                     /\ drain_pulsed' = drain_pulsed
       /\ TricklePush =>
            IF acks_to_release >= TrickleDen
            THEN /\ acks_to_release' = acks_to_release - TrickleDen
                 /\ ack_queue' = ack_queue
                 /\ drain_pulsed' = drain_pulsed + 1
            ELSE /\ acks_to_release' = acks_to_release
                 /\ Len(ack_queue') = Len(ack_queue) + 1
                 /\ drain_pulsed' = drain_pulsed]_vars

\* C23 witness: after an ack was released, entries completed with no ack
\* waiting, and the accumulator holds more than 1.
C23_Witness ==
    /\ cpc \in DrainPcs
    /\ drain_pulsed >= 1
    /\ ack_queue = <<>>
    /\ acks_to_release > TrickleDen

\* The conditions in ack_queue are distinct and none has been pulsed.
DeferredUnpulsed ==
    /\ \A i, j \in 1 .. Len(ack_queue) : ack_queue[i] = ack_queue[j] => i = j
    /\ \A i \in 1 .. Len(ack_queue) : ack_queue[i] \notin pulsed

\* C24 as stated: a condition deferred into ack_queue is pulsed exactly once:
\* it is not pulsed while it is in ack_queue, and once the drain is over,
\* however it ended, no deferred condition is left without its pulse.
C24_DeferredNeverDropped ==
    /\ DeferredUnpulsed
    /\ cpc \notin DrainPcs => ack_queue = <<>>

\* C24, amended: a condition deferred into ack_queue is not pulsed while it
\* is there and is pulsed in the step that takes it out; when a drain
\* completes normally, ack_queue is empty at the promotion and no async
\* write is left waiting for its throttle condition.  When the drain ends
\* by interruption, the conditions still deferred are not pulsed.
C24_DeferredPulsedOnce ==
    [][/\ DeferredUnpulsed
       /\ \A i \in 1 .. Len(ack_queue) :
            (\A j \in 1 .. Len(ack_queue') : ack_queue'[j] # ack_queue[i]) =>
                ack_queue[i] \in pulsed'
       /\ (cpc' \notin DrainPcs \cup {"failed"}) =>
            /\ ack_queue' = <<>>
            /\ \A T \in 1 .. MaxTs : hpc'[T] # "throttle"]_vars

\* C24 witness: the drain loop has ended normally; a completed entry
\* released one deferred condition, whose write is acked, and another one is
\* still deferred, its handler waiting, to be released before the promotion.
C24_Witness ==
    /\ cpc = "drain_join"
    /\ DrainTasks = 0
    /\ ~interruptor
    /\ drain_pulsed >= 1
    /\ ack_queue # <<>>
    /\ hpc[ack_queue[1]] = "throttle"
    /\ \E T \in pulsed : T > get_max_timestamp(bets) /\ hpc[T] = "acked"

\* The indices of the store operations issued for the write at T.
OpsOf(os, T) == {i \in 1 .. Len(os) : os[i].ts = T}

QueuePush == Len(queue') > Len(queue)

QueuePop == Len(queue') < Len(queue)

\* C26 as stated: the write-router enqueues into the phase queue only under
\* the exclusive lock; the drainer is the single consumer.
C26_QueueUnderExclusiveLock ==
    [][/\ QueuePush => rwlock = "ctor"
       /\ QueuePop => cpc = "drain"]_vars

\* C26, amended: the write-router enqueues into the phase queue while it
\* holds the shared lock, hence never while the constructor holds the
\* exclusive lock; the drainer is the single consumer: it takes the front
\* entry, with or without the lock held, and while it holds the lock
\* nothing is enqueued.
C26_QueueAccess ==
    [][/\ QueuePush =>
            /\ rwlock = "free"
            /\ \E T \in 1 .. MaxTs : AsyncRouted(T)
            /\ SubSeq(queue', 1, Len(queue)) = queue
            /\ Len(queue') = Len(queue) + 1
       /\ QueuePop =>
            /\ cpc = "drain" /\ cpc' = "drain"
            /\ queue' = Tail(queue)
            /\ ops' = Append(ops, ops'[Len(ops')])
            /\ ops'[Len(ops')].path = "drain"
            /\ ops'[Len(ops')].ts = Head(queue).timestamp
       /\ rwlock = "ctor" => ~QueuePush]_vars

\* C26 witness: the drainer has taken an entry of this phase from the queue
\* and the lock is free; the queue holds an entry pushed during the drain.
C26_Witness ==
    /\ cpc = "drain"
    /\ rwlock = "free"
    /\ queue # <<>>
    /\ queue[Len(queue)].timestamp > get_max_timestamp(bets)
    /\ \E i \in 1 .. Len(ops) :
          /\ ops[i].path = "drain"
          /\ \E j \in 1 .. Len(pushed_ts) : pushed_ts[j] = ops[i].ts

\* During construction the async write at T is routed in this step, and it
\* touches no key of the streaming region and none of the queueing region.
RoutedWithEmptyShards(T) ==
    /\ AsyncRouted(T)
    /\ ~replica
    /\ writes'[T] \cap KeysOf(region_streaming) = {}
    /\ writes'[T] \cap KeysOf(region_queueing) = {}

\* C27 as stated: such a write completes T on the enforcer and issues no
\* store operation, neither a data write nor a set-metainfo; it waits for
\* no store operation before its ack.
C27_NoStoreOperation ==
    [][\A T \in 1 .. MaxTs :
         RoutedWithEmptyShards(T) =>
            /\ latest' = T
            /\ ops' = ops
            /\ hpc'[T] # "apply"]_vars

\* C27, amended: such a write completes T on the enforcer and issues no
\* data write.  If the streaming region is not empty it issues a
\* set-metainfo at T over the streaming region and is acked after it;
\* otherwise it issues no store operation.  If a queue function is
\* installed it pushes an entry without a write, else nothing; it is acked
\* at once when it has no operation to wait for and its throttle condition
\* is pulsed.
C27_MetainfoOnlyAdvance ==
    [][\A T \in 1 .. MaxTs :
         RoutedWithEmptyShards(T) =>
            /\ latest' = T
            /\ admitted' = Append(admitted, T)
            /\ IF region_is_empty(region_streaming)
               THEN ops' = ops
               ELSE /\ Len(ops') = Len(ops) + 1
                    /\ SubSeq(ops', 1, Len(ops)) = ops
                    /\ ops'[Len(ops')].path = "stream"
                    /\ ops'[Len(ops')].ts = T
                    /\ ops'[Len(ops')].region = region_streaming
                    /\ ~ops'[Len(ops')].has_write
                    /\ hpc'[T] = "apply"
            /\ IF queue_fun # "null"
               THEN /\ Len(queue') = Len(queue) + 1
                    /\ queue'[Len(queue')].timestamp = T
                    /\ ~queue'[Len(queue')].has_write
               ELSE queue' = queue
            /\ (ops' = ops /\ T \in pulsed') => hpc'[T] = "acked"
            /\ data' = data /\ metainfo' = metainfo]_vars

\* C27 witness: between two phases a write that touches only the discarding
\* region was routed; the store has run its set-metainfo over the streaming
\* region, and the write is acked.
C27_Witness ==
    /\ cpc \in {"loop_wait_ok", "lock1"}
    /\ \E i \in 1 .. nexec :
          /\ ops[i].path = "stream"
          /\ ~ops[i].has_write
          /\ writes[ops[i].ts] \cap KeysOf(ops[i].region) = {}
          /\ hpc[ops[i].ts] = "acked"
          /\ \A j \in 1 .. Len(ops) :
                ops[j].ts = ops[i].ts => j = i
          /\ \A k \in KeysOf(ops[i].region) : metainfo[k][2] >= ops[i].ts

\* C28: whenever the handler of an async write, holding the shared lock,
\* finds a queue function installed (line 546), the queueing region is not
\* empty (line 547), in every phase and after the End-phase shrink too.
C28_QueueingRegionNonEmpty ==
    [][\A T \in 1 .. MaxTs :
         (AsyncRouted(T) /\ ~replica /\ queue_fun # "null") =>
            ~region_is_empty(region_queueing)]_vars

\* The store runs, in this step, an operation of the streaming path or of
\* the drainer that carries a write.
DataWriteRuns ==
    /\ nexec' = nexec + 1
    /\ ops[nexec + 1].path \in {"stream", "drain"}
    /\ ops[nexec + 1].has_write
    /\ data' # data

PhaseEnds == cpc = "drain_join" /\ cpc' = "loop"

HandlerProceeds ==
    \E T \in 1 .. MaxTs :
        /\ hpc[T] \in {"none", "registered_wait"}
        /\ hpc'[T] \notin {"none", "registered_wait", "interrupted"}

\* C31: no handler of an async write goes past its wait for registered_, and
\* so none reads or updates the timestamp enforcer, the region fields, the
\* queue function, the queue or the store, before the intro message has been
\* handled and the enforcer initialised with streaming_begin_timestamp; as
\* long as the intro has not been handled, the enforcer, the queue, the
\* queue function and the store are as the constructor left them, also when
\* a handler was started before the intro.
C31_NoHandlerBeforeIntro ==
    [][/\ HandlerProceeds => (registered /\ latest >= t0)
       /\ ~registered' =>
             UNCHANGED <<latest, admitted, queue_fun, queueVars, storeVars,
                         pulsed>>]_vars

\* The handler of an async write was started before the intro message was
\* handled and is suspended; nothing has been admitted, queued or given to
\* the store.
C31_Witness ==
    /\ ~registered /\ cpc = "registering"
    /\ EarlyWrites # {}
    /\ latest = 0 /\ admitted = <<>> /\ queue = <<>> /\ ops = <<>>

====
